---- MODULE Spec2Model ----
(***************************************************************************)
(* Filtered-dataset fingerprinting and KPI aggregation pipeline of the     *)
(* Chinook dashboard: the materializer (services/sql_core.py), the         *)
(* memoized wrappers (services/cached_funs.py), the KPI aggregators        *)
(* (services/kpis/*.py) and the data callbacks (callbacks/*.py).           *)
(***************************************************************************)
EXTENDS Integers, Sequences, FiniteSets, TLC

\* ------------------------------------------------------------------------
\* Bounds of the model
\* ------------------------------------------------------------------------
MaxMonth == 3
MaxDay == 2
MaxFrameLen == 3
MaxOffsetArg == 2

\* top_n of the memoized KPI bundle
TopN == 5

\* None / NaN / SQL NULL
Null == "Null"

\* ------------------------------------------------------------------------
\* Generic helpers
\* ------------------------------------------------------------------------
RECURSIVE SumSeq(_)
SumSeq(s) == IF s = <<>> THEN 0 ELSE Head(s) + SumSeq(Tail(s))

RECURSIVE SetToSeq(_)
SetToSeq(S) == IF S = {} THEN <<>>
               ELSE LET x == CHOOSE x \in S : TRUE IN <<x>> \o SetToSeq(S \ {x})

Range(s) == { s[i] : i \in 1..Len(s) }

\* ------------------------------------------------------------------------
\* Dates: a date is a (month, day) pair; a month has MaxDay days
\* ------------------------------------------------------------------------
D(m, d) == [m |-> m, d |-> d]
Dates == [m : 1..MaxMonth, d : 1..MaxDay]
DateLeq(a, b) == a.m < b.m \/ (a.m = b.m /\ a.d <= b.d)
DateLt(a, b) == DateLeq(a, b) /\ a # b
Between(x, lo, hi) == DateLeq(lo, x) /\ DateLeq(x, hi)
\* pd.to_datetime(x).to_period("M").start_time / .end_time
MonthStart(x) == D(x.m, 1)
MonthEnd(x) == D(x.m, MaxDay)

\* ------------------------------------------------------------------------
\* The source dataset (read-only for the lifetime of the process)
\* ------------------------------------------------------------------------
Invoice ==
    << [InvoiceId |-> 1,  CustomerId |-> 1, InvoiceDate |-> D(1, 1), BillingCountry |-> "USA"],
       [InvoiceId |-> 2,  CustomerId |-> 1, InvoiceDate |-> D(2, 2), BillingCountry |-> "USA"],
       [InvoiceId |-> 3,  CustomerId |-> 2, InvoiceDate |-> D(1, 2), BillingCountry |-> "Canada"],
       [InvoiceId |-> 4,  CustomerId |-> 2, InvoiceDate |-> D(3, 1), BillingCountry |-> "Canada"],
       [InvoiceId |-> 10, CustomerId |-> 3, InvoiceDate |-> D(2, 1), BillingCountry |-> "Brazil"] >>

\* unit prices in cents
InvoiceLine ==
    << [InvoiceId |-> 1,  TrackId |-> 1, Quantity |-> 1, UnitPrice |-> 99],
       [InvoiceId |-> 2,  TrackId |-> 2, Quantity |-> 1, UnitPrice |-> 99],
       [InvoiceId |-> 2,  TrackId |-> 1, Quantity |-> 1, UnitPrice |-> 99],
       [InvoiceId |-> 3,  TrackId |-> 2, Quantity |-> 2, UnitPrice |-> 99],
       [InvoiceId |-> 4,  TrackId |-> 2, Quantity |-> 1, UnitPrice |-> 199],
       [InvoiceId |-> 10, TrackId |-> 1, Quantity |-> 1, UnitPrice |-> 99],
       [InvoiceId |-> 10, TrackId |-> 3, Quantity |-> 1, UnitPrice |-> 99] >>

\* Track joined with Album, Artist and Genre
Track ==
    << [TrackId |-> 1, Genre |-> "Rock",  Artist |-> "ACDC"],
       [TrackId |-> 2, Genre |-> "Jazz",  Artist |-> "Miles"],
       [TrackId |-> 3, Genre |-> "Rock",  Artist |-> "ACDC"],
       [TrackId |-> 4, Genre |-> "Latin", Artist |-> "Nobody"] >>

InvoiceOf(id) == CHOOSE i \in Range(Invoice) : i.InvoiceId = id
TrackOf(id) == CHOOSE t \in Range(Track) : t.TrackId = id
InvoiceIds == { i.InvoiceId : i \in Range(Invoice) }
CustomerIds == { i.CustomerId : i \in Range(Invoice) }

\* ------------------------------------------------------------------------
\* Strings as sequences of characters (str(), sorted(), ",".join())
\* ------------------------------------------------------------------------
DigitChar == <<"0", "1", "2", "3", "4", "5", "6", "7", "8", "9">>

CharCode(c) ==
    IF c = "," THEN 44
    ELSE IF c = "." THEN 46
    ELSE 48 + (CHOOSE k \in 0..9 : DigitChar[k + 1] = c)

\* str() of a non-negative integer
RECURSIVE StrInt(_)
StrInt(n) == IF n < 10 THEN <<DigitChar[n + 1]>>
             ELSE StrInt(n \div 10) \o <<DigitChar[(n % 10) + 1]>>

\* lexicographic order of Python strings
RECURSIVE StrLeq(_, _)
StrLeq(a, b) ==
    IF a = <<>> THEN TRUE
    ELSE IF b = <<>> THEN FALSE
    ELSE IF CharCode(Head(a)) < CharCode(Head(b)) THEN TRUE
    ELSE IF CharCode(Head(a)) > CharCode(Head(b)) THEN FALSE
    ELSE StrLeq(Tail(a), Tail(b))

\* sort key of DataFrame.sort_values(["CustomerId", "dt"])
RowLeq(a, b) == a.CustomerId < b.CustomerId
                \/ (a.CustomerId = b.CustomerId /\ DateLeq(a.dt, b.dt))

\* group labels in alphabetical order
Labels == <<"ACDC", "Brazil", "Canada", "Jazz", "Latin", "Miles", "Nobody", "Rock", "USA">>
LabelRank(x) == CHOOSE i \in 1..Len(Labels) : Labels[i] = x

\* the orders the program sorts by: strings; rows by customer and date;
\* cohort keys by month and offset; group values by label; group rows by a
\* metric, descending, then by label
LeqBy(key, a, b) ==
    IF key = "str" THEN StrLeq(a, b)
    ELSE IF key = "row" THEN RowLeq(a, b)
    ELSE IF key = "cohort" THEN a[1] < b[1] \/ (a[1] = b[1] /\ a[2] <= b[2])
    ELSE IF key = "label" THEN LabelRank(a) <= LabelRank(b)
    ELSE a[key] > b[key]
         \/ (a[key] = b[key] /\ LabelRank(a.group_val) <= LabelRank(b.group_val))

\* insertion of x into the sorted sequence s, after every element that is
\* not greater (a stable sort)
RECURSIVE InsertSorted(_, _, _)
InsertSorted(x, s, key) ==
    IF s = <<>> THEN <<x>>
    ELSE IF LeqBy(key, Head(s), x) THEN <<Head(s)>> \o InsertSorted(x, Tail(s), key)
    ELSE <<x>> \o s

RECURSIVE StableSort(_, _)
StableSort(s, key) ==
    IF s = <<>> THEN <<>>
    ELSE InsertSorted(s[Len(s)], StableSort(SubSeq(s, 1, Len(s) - 1), key), key)

\* the elements of a set in the order of key (ORDER BY, sort_values)
RECURSIVE SortSet(_, _)
SortSet(S, key) ==
    IF S = {} THEN <<>>
    ELSE LET x == CHOOSE a \in S : \A b \in S : LeqBy(key, a, b)
         IN <<x>> \o SortSet(S \ {x}, key)

\* ",".join(parts)
RECURSIVE JoinComma(_)
JoinComma(parts) ==
    IF parts = <<>> THEN <<>>
    ELSE IF Len(parts) = 1 THEN parts[1]
    ELSE parts[1] \o <<",">> \o JoinComma(Tail(parts))

\* the characters of a string as one TLA+ string
RECURSIVE Flat(_)
Flat(cs) == IF cs = <<>> THEN "" ELSE Head(cs) \o Flat(Tail(cs))

\* ------------------------------------------------------------------------
\* Fingerprinting (services/sql_core.py)
\* ------------------------------------------------------------------------
\* pandas column of a frame built from a list of ids: a column holding None
\* is float64 (its ids print as "1.0"), a column without None is int64
\* a cell of an id column: <<>> for None/NaN, <<n>> for the id n
NaN == <<>>
ColumnDtype(col) == IF \E i \in 1..Len(col) : col[i] = NaN THEN "float64" ELSE "int64"

\* str(x) of a numpy scalar of the column
StrOfId(x, dtype) == IF dtype = "float64" THEN StrInt(x) \o <<".", "0">> ELSE StrInt(x)

\* Series.dropna()
DropNa(col) == SelectSeq(col, LAMBDA x : x # NaN)

\* Series.unique(): first occurrences, in order of appearance
RECURSIVE Unique(_)
Unique(col) ==
    IF col = <<>> THEN <<>>
    ELSE LET init == SubSeq(col, 1, Len(col) - 1)
             last == col[Len(col)]
         IN IF last \in Range(init) THEN Unique(init) ELSE Unique(init) \o <<last>>

\* hashlib.md5(payload).hexdigest(): the digest is taken as collision-free
\* and is named by the payload it digests
Md5(payload) == "md5:" \o Flat(payload)

\* hash of the InvoiceId column col
HashIdColumn(col) ==
    LET dtype == ColumnDtype(col)
        invoice_ids == Unique(DropNa(col))
        strs == [i \in 1..Len(invoice_ids) |-> StrOfId(invoice_ids[i][1], dtype)]
        sorted_ids == StableSort(strs, "str")
    IN Md5(JoinComma(sorted_ids))

hash_invoice_ids(df) == HashIdColumn([i \in 1..Len(df) |-> <<df[i].InvoiceId>>])

\* ------------------------------------------------------------------------
\* Filters and the materializer query (services/sql_filters.py, sql_core.py)
\* ------------------------------------------------------------------------
\* form_where_clause: one IN-clause per non-empty filter list
form_where_clause(country, genre, artist) ==
    (IF country # {} THEN <<[col |-> "country", vals |-> country]>> ELSE <<>>)
    \o (IF genre # {} THEN <<[col |-> "genre", vals |-> genre]>> ELSE <<>>)
    \o (IF artist # {} THEN <<[col |-> "artist", vals |-> artist]>> ELSE <<>>)

ClauseHolds(c, i, t) ==
    IF c.col = "country" THEN i.BillingCountry \in c.vals
    ELSE IF c.col = "genre" THEN t.Genre \in c.vals
    ELSE t.Artist \in c.vals

\* Invoice JOIN InvoiceLine JOIN Track/Album/Artist/Genre WHERE all clauses:
\* one (CustomerId, dt, InvoiceId) row per matching invoice line
EventsQuery(where_clauses) ==
    LET Keep(il) == \A k \in 1..Len(where_clauses) :
                        ClauseHolds(where_clauses[k], InvoiceOf(il.InvoiceId), TrackOf(il.TrackId))
        lines == SelectSeq(InvoiceLine, Keep)
    IN [k \in 1..Len(lines) |->
            [CustomerId |-> InvoiceOf(lines[k].InvoiceId).CustomerId,
             dt |-> InvoiceOf(lines[k].InvoiceId).InvoiceDate,
             InvoiceId |-> lines[k].InvoiceId]]

\* the frame sorted without dropping its duplicate rows
CleanRows_KeepDuplicates(df) == StableSort(df, "row")

\* df.drop_duplicates(subset=[CustomerId, InvoiceId, dt]).sort_values(...)
CleanRows(df) == StableSort(Unique(df), "row")

\* ------------------------------------------------------------------------
\* Values and their display form (services/display_utils.py)
\* ------------------------------------------------------------------------
\* a Python value handed to format_kpi_value: None, or the exact quotient
\* n / d of two integers (d > 0)
NoneVal == [k |-> "none"]
Num(n, d) == [k |-> "num", n |-> n, d |-> d]
\* float('nan') and float('inf')
NaNVal == [k |-> "nan"]
InfVal == [k |-> "inf"]

\* round-half-even of a / b (Python's round), a >= 0, b > 0
RoundHalfEven(a, b) ==
    LET q == a \div b
        r == a % b
    IN IF 2 * r < b THEN q
       ELSE IF 2 * r > b THEN q + 1
       ELSE IF q % 2 = 0 THEN q ELSE q + 1

\* round-half-up of a / b (SQL ROUND), a >= 0, b > 0
RoundHalfUp(a, b) == (2 * a + b) \div (2 * b)

\* the "not applicable" sentinel, the string 'NA'
NA == [fmt |-> "NA"]

\* format_kpi_value(value, value_type): money is counted in cents, so a
\* dollar amount rounded to 2 places is a whole number of cents; a percent
\* rounded to 2 places is a whole number of hundredths of a percent; the
\* decimal places are always 2 (locale.log10 does not exist: the fallback)
format_kpi_value(value, value_type) ==
    IF value.k = "none" THEN NA
    ELSE IF value.k \in {"nan", "inf"}
        \* a float: it is formatted as any number, 'nan' / 'inf' ('nan%')
        THEN [fmt |-> value.k]
    ELSE IF value_type = "percent"
        THEN [fmt |-> "percent", scaled |-> RoundHalfEven(value.n * 10000, value.d)]
    ELSE IF value_type = "dollar"
        THEN [fmt |-> "dollar", scaled |-> RoundHalfEven(value.n, value.d)]
    ELSE IF value_type = "number" /\ value.n % value.d = 0
        THEN [fmt |-> "number", scaled |-> 100 * (value.n \div value.d)]
    ELSE [fmt |-> value_type, scaled |-> RoundHalfEven(value.n * 100, value.d)]

\* ------------------------------------------------------------------------
\* Results of a service call: a raised exception, a dict or a DataFrame
\* ------------------------------------------------------------------------
Raise(exc, work) == [kind |-> "raise", exc |-> exc, work |-> work]
Dict(d, work) == [kind |-> "dict", d |-> d, work |-> work]
EmptyDict == [key \in {} |-> NA]

\* ------------------------------------------------------------------------
\* Core metrics (services/kpis/core.py)
\* ------------------------------------------------------------------------
CoreKpiKeys == {"purchases_num", "cust_num", "cust_num_new", "cust_per_new",
                "tracks_sold_num", "revenue_total", "revenue_total_fmt",
                "revenue_per_month", "revenue_per_cust", "revenue_per_purchase",
                "genre_num", "artist_num", "country_num"}

\* rows of the working table whose dt lies in the month-snapped window
DateFiltered(rows, date_range) ==
    SelectSeq(rows, LAMBDA r : Between(r.dt, MonthStart(date_range[1]), MonthEnd(date_range[2])))

\* the invoice lines LEFT JOINed to the rows of a frame
JoinedLines(rows) ==
    LET LinesOf(r) == SelectSeq(InvoiceLine, LAMBDA il : il.InvoiceId = r.InvoiceId)
        Cat[k \in 0..Len(rows)] == IF k = 0 THEN <<>> ELSE Cat[k - 1] \o LinesOf(rows[k])
    IN Cat[Len(rows)]

\* customer_lifespan: MIN(InvoiceDate) per customer over the whole Invoice table
FirstPurchase(c) ==
    CHOOSE x \in { i.InvoiceDate : i \in { j \in Range(Invoice) : j.CustomerId = c } } :
        \A i \in Range(Invoice) : i.CustomerId = c => DateLeq(x, i.InvoiceDate)

\* the metrics query and the formatted KPI dict built from its one row
CoreKpiDict(t, date_range) ==
    LET start == MonthStart(date_range[1])
        end == MonthEnd(date_range[2])
        num_months == (end.m - start.m) + 1
        df == DateFiltered(t.rows, date_range)
        lines == JoinedLines(df)
        purchases == Cardinality({ r.InvoiceId : r \in Range(df) })
        customers == Cardinality({ r.CustomerId : r \in Range(df) })
        new_customers == Cardinality({ r.CustomerId : r \in
                            { x \in Range(df) : Between(FirstPurchase(x.CustomerId), start, end) } })
        tracks_sold == SumSeq([k \in 1..Len(lines) |-> lines[k].Quantity])
        revenue == SumSeq([k \in 1..Len(lines) |-> lines[k].Quantity * lines[k].UnitPrice])
        num_genres == Cardinality({ TrackOf(il.TrackId).Genre : il \in Range(lines) })
        num_artists == Cardinality({ TrackOf(il.TrackId).Artist : il \in Range(lines) })
        num_countries == Cardinality({ InvoiceOf(r.InvoiceId).BillingCountry : r \in Range(df) })
        Rate(n, d) == IF d > 0 THEN Num(n, d) ELSE NoneVal
    IN [key \in CoreKpiKeys |->
          CASE key = "purchases_num" -> format_kpi_value(Num(purchases, 1), "number")
            [] key = "cust_num" -> format_kpi_value(Num(customers, 1), "number")
            [] key = "cust_num_new" -> format_kpi_value(Num(new_customers, 1), "number")
            [] key = "cust_per_new" -> format_kpi_value(Rate(new_customers, customers), "percent")
            [] key = "tracks_sold_num" -> format_kpi_value(Num(tracks_sold, 1), "number")
            [] key = "revenue_total" -> [fmt |-> "raw", scaled |-> revenue]
            [] key = "revenue_total_fmt" -> format_kpi_value(Num(revenue, 1), "dollar")
            [] key = "revenue_per_month" -> format_kpi_value(Rate(revenue, num_months), "dollar")
            [] key = "revenue_per_cust" -> format_kpi_value(Rate(revenue, customers), "dollar")
            [] key = "revenue_per_purchase" -> format_kpi_value(Rate(revenue, purchases), "dollar")
            [] key = "genre_num" -> format_kpi_value(Num(num_genres, 1), "number")
            [] key = "artist_num" -> format_kpi_value(Num(num_artists, 1), "number")
            [] key = "country_num" -> format_kpi_value(Num(num_countries, 1), "number")]

\* get_subset_core_kpis without the zero-row check
get_subset_core_kpis_NoRowCheck(t, date_range) ==
    IF ~t.exists THEN Raise("CatalogException", {"core"})
    ELSE Dict(CoreKpiDict(t, date_range), {"core"})

\* get_subset_core_kpis(conn, date_range) on the working table t
get_subset_core_kpis(t, date_range) ==
    IF ~t.exists THEN Raise("CatalogException", {"core"})
    ELSE IF Len(DateFiltered(t.rows, date_range)) = 0 THEN Dict(EmptyDict, {"core"})
    ELSE Dict(CoreKpiDict(t, date_range), {"core"})

\* ------------------------------------------------------------------------
\* Cohort retention table (services/kpis/retention.py)
\* ------------------------------------------------------------------------
\* max_offset is None (<<>>) or an integer (<<n>>)
NoOffset == <<>>

\* DATE_TRUNC('month', MIN(InvoiceDate)) per customer over the whole Invoice table
CohortMonth(c) == FirstPurchase(c).m
\* cohort sizes counted over the customers of one billing country only
CohortSize_Filtered(cm) ==
    Cardinality({ c \in { i.CustomerId : i \in { j \in Range(Invoice) : j.BillingCountry = "USA" } } :
                    CohortMonth(c) = cm })
CohortSize(cm) == Cardinality({ c \in CustomerIds : CohortMonth(c) = cm })

\* month span of the invoices of the working table (max_offset is None)
TableMonthSpan(rows) ==
    LET ms == { InvoiceOf(r.InvoiceId).InvoiceDate.m : r \in Range(rows) }
        lo == CHOOSE x \in ms : \A y \in ms : x <= y
        hi == CHOOSE x \in ms : \A y \in ms : x >= y
    IN hi - lo

\* the share computed by integer division, in 1/10000
RetentionPct_IntegerDivision(num_active_customers, cohort_size) ==
    (num_active_customers \div cohort_size) * 10000
\* ROUND(ac.num_active_customers * 1.0 / cs.cohort_size, 4), in 1/10000
RetentionPct(num_active_customers, cohort_size) ==
    RoundHalfUp(num_active_customers * 10000, cohort_size)

\* WHERE ac.month_offset > 0 of the final SELECT, on a key (cohort_month, month_offset)
KeepOffset_Any(k) == TRUE
KeepOffset(k) == k[2] > 0

\* get_retention_cohort_data(conn, date_range, max_offset) on the working
\* table t: rows (cohort_month, month_offset, num_active_customers,
\* cohort_size, retention_pct in 1/10000), ordered by cohort month and offset
get_retention_cohort_data(t, date_range, max_offset) ==
    IF ~t.exists THEN Raise("CatalogException", {"cohort"})
    ELSE IF max_offset = NoOffset /\ t.rows = <<>>
        \* MIN/MAX over no row are NULL: the offset is NaN and the query fails
        THEN Raise("BinderException", {"cohort"})
    ELSE
    LET mo == IF max_offset = NoOffset THEN TableMonthSpan(t.rows) ELSE max_offset[1]
        Offset(r) == InvoiceOf(r.InvoiceId).InvoiceDate.m - CohortMonth(r.CustomerId)
        activity == { r \in Range(t.rows) :
                        /\ Offset(r) >= 0
                        /\ Between(r.dt, date_range[1], date_range[2])
                        /\ Offset(r) <= mo }
        keys == { <<CohortMonth(r.CustomerId), Offset(r)>> : r \in activity }
        kept == { k \in keys : KeepOffset(k) }
        Active(k) == Cardinality({ r.CustomerId : r \in
                        { x \in activity : CohortMonth(x.CustomerId) = k[1] /\ Offset(x) = k[2] } })
        ks == SortSet(kept, "cohort")
    IN [kind |-> "df", work |-> {"cohort"},
        rows |-> [n \in 1..Len(ks) |->
                    [cohort_month |-> ks[n][1],
                     month_offset |-> ks[n][2],
                     num_active_customers |-> Active(ks[n]),
                     cohort_size |-> CohortSize(ks[n][1]),
                     retention_pct |-> RetentionPct(Active(ks[n]), CohortSize(ks[n][1]))]]]

\* ------------------------------------------------------------------------
\* Retention KPIs (services/kpis/retention.py)
\* ------------------------------------------------------------------------
\* the top cohort snapshot of one offset: the first row of the cohort rows of
\* that offset sorted by retention_pct descending
TopCohort(cohort_rows, offset) ==
    LET subset == SelectSeq(cohort_rows, LAMBDA r : r.month_offset = offset)
        best == CHOOSE i \in 1..Len(subset) :
                    /\ \A j \in 1..Len(subset) : subset[j].retention_pct <= subset[i].retention_pct
                    /\ \A j \in 1..(i - 1) : subset[j].retention_pct < subset[i].retention_pct
    IN IF subset = <<>> THEN [month |-> NA, retention |-> NA]
       ELSE [month |-> [fmt |-> "month", scaled |-> subset[best].cohort_month],
             retention |-> format_kpi_value(Num(subset[best].retention_pct, 10000), "percent")]

\* the day number of a date, and the month a day number lies in
DayNo(x) == (x.m - 1) * MaxDay + x.d
MonthOfDay(n) == ((n - 1) \div MaxDay) + 1

\* a nullable cell of the customer frame: <<x>>, or <<>> for NULL / NaT / None
IsNa(cell) == cell = <<>>

\* month_diff(start, end) and gap(d1, d2) of two cells holding day numbers
month_diff(start, end) ==
    IF IsNa(start) \/ IsNa(end) THEN NoneVal
    ELSE Num(MonthOfDay(end[1]) - MonthOfDay(start[1]), 1)
gap(d1, d2) ==
    IF IsNa(d1) \/ IsNa(d2) THEN NoneVal ELSE Num(d2[1] - d1[1], 1)

\* x / n of a value that may be None
Over(x, n) == IF x.k = "none" THEN NoneVal ELSE Num(x.n, x.d * n)

\* numpy's a / b of two integers: nan or inf for b = 0
NpDivide(a, b) == IF b # 0 THEN Num(a, b) ELSE IF a = 0 THEN NaNVal ELSE InfVal

\* the values of a column that are not None
NotNone(col) == SelectSeq(col, LAMBDA v : v.k # "none")

\* Series.mean(skipna=True): nan when no value is left
RECURSIVE SumValues(_)
SumValues(col) ==
    IF col = <<>> THEN Num(0, 1)
    ELSE LET rest == SumValues(Tail(col))
         IN Num(Head(col).n * rest.d + rest.n * Head(col).d, Head(col).d * rest.d)
Mean(col) ==
    LET v == NotNone(col)
        total == SumValues(v)
    IN IF v = <<>> THEN NaNVal ELSE Num(total.n, total.d * Len(v))

\* Series.median(skipna=True) of a column of whole numbers
Median(col) ==
    LET v == NotNone(col)
        n == Len(v)
        Place(i) == 1 + Cardinality({ j \in 1..n : v[j].n < v[i].n })
                      + Cardinality({ j \in 1..(i - 1) : v[j].n = v[i].n })
        At(p) == v[CHOOSE i \in 1..n : Place(i) = p].n
    IN IF n = 0 THEN NaNVal
       ELSE IF n % 2 = 1 THEN Num(At((n + 1) \div 2), 1)
       ELSE Num(At(n \div 2) + At((n \div 2) + 1), 2)

\* the row of one customer in the frame of the boundary query (bounds_all
\* JOIN bounds_window), from the customer's events in date order
BoundsRow(c, all_events, start_date, end_date) ==
    LET windowed == SelectSeq(all_events, LAMBDA e : start_date <= e[1] /\ e[1] <= end_date)
        before == SelectSeq(all_events, LAMBDA e : e[1] < start_date)
        after == SelectSeq(all_events, LAMBDA e : e[1] > end_date)
        Nth(events, k) == IF k >= 1 /\ Len(events) >= k THEN <<events[k][1]>> ELSE <<>>
    IN [CustomerId |-> c,
        first_date |-> Nth(all_events, 1),
        second_date |-> Nth(all_events, 2),
        last_date |-> Nth(all_events, Len(all_events)),
        total_purchases |-> Len(all_events),
        last_before_window |-> Nth(before, Len(before)),
        first_after_window |-> Nth(after, 1),
        num_in_window |-> Len(windowed),
        first_in_window |-> Nth(windowed, 1),
        second_in_window |-> Nth(windowed, 2),
        last_in_window |-> Nth(windowed, Len(windowed))]

\* all_events of customer c over the working table t, and the customer's row
CustomerBounds(t, c, date_range) ==
    BoundsRow(c,
              SortSet({ <<DayNo(r.dt), r.InvoiceId>> :
                          r \in { x \in Range(t.rows) : x.CustomerId = c } }, "cohort"),
              DayNo(date_range[1]), DayNo(date_range[2]))

\* Python's a > 0 & b: & binds tighter than >, so the comparison is
\* a > (0 & b), and 0 & b is 0 (False) whatever b is
GreaterThanZeroAnd(a, b) == a > 0

\* lifespan_window(r) with the in-window dates only, whatever lies outside
lifespan_window_InWindowOnly(r, start_date, end_date) ==
    IF r.num_in_window > 1 THEN month_diff(r.first_in_window, r.last_in_window) ELSE NoneVal

\* lifespan_window(r): start_date and end_date are the window boundaries
lifespan_window(r, start_date, end_date) ==
    IF IsNa(r.last_before_window) /\ IsNa(r.first_after_window)
        THEN (IF r.num_in_window > 1
              THEN month_diff(r.first_in_window, r.last_in_window) ELSE NoneVal)
    ELSE IF IsNa(r.last_before_window) THEN month_diff(r.first_in_window, end_date)
    ELSE IF IsNa(r.first_after_window) THEN month_diff(start_date, r.last_in_window)
    ELSE month_diff(start_date, end_date)

\* df["avg_gap_window"] of row r
avg_gap_window(r) ==
    IF r.num_in_window > 1
    THEN Over(gap(r.first_in_window, r.last_in_window), r.num_in_window - 1)
    ELSE NoneVal

\* avg_gap_bound(r) dividing by the number of purchases in the window in
\* every case
avg_gap_bound_PerPurchase(r) ==
    IF IsNa(r.last_before_window) /\ IsNa(r.first_after_window) THEN avg_gap_window(r)
    ELSE IF ~IsNa(r.last_before_window) /\ ~IsNa(r.first_after_window)
        THEN Over(gap(r.last_before_window, r.first_after_window), r.num_in_window)
    ELSE IF IsNa(r.last_before_window)
        THEN Over(gap(r.first_in_window, r.first_after_window), r.num_in_window)
    ELSE Over(gap(r.last_before_window, r.last_in_window), r.num_in_window)

\* avg_gap_bound(r)
avg_gap_bound(r) ==
    IF IsNa(r.last_before_window) /\ IsNa(r.first_after_window) THEN avg_gap_window(r)
    ELSE IF ~IsNa(r.last_before_window) /\ ~IsNa(r.first_after_window)
        THEN Over(gap(r.last_before_window, r.first_after_window), r.num_in_window + 1)
    ELSE IF IsNa(r.last_before_window)
        THEN Over(gap(r.first_in_window, r.first_after_window), r.num_in_window)
    ELSE Over(gap(r.last_before_window, r.last_in_window), r.num_in_window)

\* the derived flags and metrics of one row r of the customer frame
CustomerFlags(r, date_range) ==
    LET cust_new == GreaterThanZeroAnd(r.num_in_window, IsNa(r.last_before_window))
    IN [CustomerId |-> r.CustomerId,
        cust_new |-> cust_new,
        repeat_any |-> r.total_purchases > 1,
        repeat_ret |-> ~cust_new /\ r.num_in_window > 0,
        repeat_conv |-> cust_new /\ (r.num_in_window > 1 \/ IsNa(r.first_after_window)),
        repeat_window |-> r.num_in_window > 1,
        lifespan_mo_total |-> IF r.total_purchases > 1
                              THEN month_diff(r.first_date, r.last_date) ELSE NoneVal,
        lifespan_mo_window |->
            lifespan_window(r, <<DayNo(date_range[1])>>, <<DayNo(date_range[2])>>),
        gap_life |-> IF r.total_purchases > 1 THEN gap(r.first_date, r.second_date) ELSE NoneVal,
        gap_window |-> gap(r.first_in_window, r.second_in_window),
        gap_winback |-> gap(r.last_before_window, r.first_in_window),
        gap_retention |-> gap(r.last_in_window, r.first_after_window),
        avg_gap_life |-> IF r.total_purchases > 1
                         THEN Over(gap(r.first_date, r.last_date), r.total_purchases - 1)
                         ELSE NoneVal,
        avg_gap_window |-> avg_gap_window(r),
        avg_gap_bound |-> avg_gap_bound(r)]

\* the keys of raw_kpis and the format each is displayed in
RateKpiKeys == {"pct_new", "ret_rate_any", "ret_rate_return", "ret_rate_conv",
                "ret_rate_window"}
FloatKpiKeys == {"avg_life_mo_tot", "avg_life_mo_win", "med_gap_life", "med_gap_window",
                 "med_gap_winback", "med_gap_ret", "avg_gap_life", "avg_gap_window",
                 "avg_gap_bound"}
CountKpiKeys == {"num_cust", "num_new", "ret_n_any", "ret_n_return", "ret_n_conv",
                 "ret_n_window"}
RetentionKpiKeys == RateKpiKeys \cup FloatKpiKeys \cup CountKpiKeys
FmtType(key) == IF key \in RateKpiKeys THEN "percent"
                ELSE IF key \in FloatKpiKeys THEN "float"
                ELSE "number"

\* get_retention_kpis(conn, date_range, cohort_df, offsets) on the working
\* table t; the KPIs are keyed by name, the snapshots by <<name, offset>>
CustomerFrame(t, date_range) ==
    LET bounds == SetToSeq({ b \in { CustomerBounds(t, c, date_range) :
                                       c \in { r.CustomerId : r \in Range(t.rows) } } :
                               b.num_in_window > 0 })
    IN [i \in 1..Len(bounds) |-> CustomerFlags(bounds[i], date_range)]
Count(df, flag) == Cardinality({ i \in 1..Len(df) : df[i][flag] })
Column(df, name) == [i \in 1..Len(df) |-> df[i][name]]
RawKpi(df, key) ==
    LET n_total == Len(df)
        n_new == Count(df, "cust_new")
    IN CASE key = "num_cust" -> Num(n_total, 1)
         [] key = "num_new" -> Num(n_new, 1)
         [] key = "pct_new" -> NpDivide(n_new, n_total)
         [] key = "ret_n_any" -> Num(Count(df, "repeat_any"), 1)
         [] key = "ret_rate_any" -> NpDivide(Count(df, "repeat_any"), n_total)
         [] key = "ret_n_return" -> Num(Count(df, "repeat_ret"), 1)
         [] key = "ret_rate_return" -> NpDivide(Count(df, "repeat_ret"), n_total - n_new)
         [] key = "ret_n_conv" -> Num(Count(df, "repeat_conv"), 1)
         [] key = "ret_rate_conv" -> NpDivide(Count(df, "repeat_conv"), n_new)
         [] key = "ret_n_window" -> Num(Count(df, "repeat_window"), 1)
         [] key = "ret_rate_window" -> NpDivide(Count(df, "repeat_window"), n_total)
         [] key = "avg_life_mo_tot" -> Mean(Column(df, "lifespan_mo_total"))
         [] key = "avg_life_mo_win" -> Mean(Column(df, "lifespan_mo_window"))
         [] key = "med_gap_life" -> Median(Column(df, "gap_life"))
         [] key = "med_gap_window" -> Median(Column(df, "gap_window"))
         [] key = "med_gap_winback" -> Median(Column(df, "gap_winback"))
         [] key = "med_gap_ret" -> Median(Column(df, "gap_retention"))
         [] key = "avg_gap_life" -> Mean(Column(df, "avg_gap_life"))
         [] key = "avg_gap_window" -> Mean(Column(df, "avg_gap_window"))
         [] key = "avg_gap_bound" -> Mean(Column(df, "avg_gap_bound"))
RetentionKpis(df, cohort_rows, offsets) ==
    [key \in { <<k, 0>> : k \in RetentionKpiKeys }
               \cup { <<"top_cohort_month", offsets[i]>> : i \in 1..Len(offsets) }
               \cup { <<"top_cohort_retention", offsets[i]>> : i \in 1..Len(offsets) } |->
        IF key[1] \in RetentionKpiKeys
            THEN format_kpi_value(RawKpi(df, key[1]), FmtType(key[1]))
        ELSE IF key[1] = "top_cohort_month" THEN TopCohort(cohort_rows, key[2]).month
        ELSE TopCohort(cohort_rows, key[2]).retention]
get_retention_kpis(t, date_range, cohort_rows, offsets) ==
    IF ~t.exists THEN Raise("CatalogException", {"retention"})
    ELSE IF CustomerFrame(t, date_range) = <<>> THEN Dict(EmptyDict, {"retention"})
    ELSE Dict(RetentionKpis(CustomerFrame(t, date_range), cohort_rows, offsets), {"retention"})

\* ------------------------------------------------------------------------
\* Group rollups and top-N slices (services/kpis/group.py)
\* ------------------------------------------------------------------------
GroupVal(group_var, il) ==
    IF group_var = "Genre" THEN TrackOf(il.TrackId).Genre
    ELSE IF group_var = "Artist" THEN TrackOf(il.TrackId).Artist
    ELSE InvoiceOf(il.InvoiceId).BillingCountry

\* get_group_kpis_full(conn, group_var, date_range): one row per group value
get_group_kpis_full(t, group_var, date_range) ==
    LET start == MonthStart(date_range[1])
        end == MonthEnd(date_range[2])
        e == SelectSeq(t.rows, LAMBDA r : Between(InvoiceOf(r.InvoiceId).InvoiceDate, start, end))
        base == JoinedLines(e)
        Cust(il) == InvoiceOf(il.InvoiceId).CustomerId
        Dt(il) == InvoiceOf(il.InvoiceId).InvoiceDate
        first_purchase(c) == CHOOSE x \in { Dt(il) : il \in { b \in Range(base) : Cust(b) = c } } :
                                \A il \in Range(base) : Cust(il) = c => DateLeq(x, Dt(il))
        vals == { GroupVal(group_var, il) : il \in Range(base) }
        Of(v) == SelectSeq(base, LAMBDA il : GroupVal(group_var, il) = v)
        vs == SortSet(vals, "label")
    IN [n \in 1..Len(vs) |->
            LET b == Of(vs[n])
            IN [group_val |-> vs[n],
                num_customers |-> Cardinality({ Cust(il) : il \in Range(b) }),
                num_purchases |-> Cardinality({ il.InvoiceId : il \in Range(b) }),
                tracks_sold |-> SumSeq([k \in 1..Len(b) |-> b[k].Quantity]),
                revenue |-> SumSeq([k \in 1..Len(b) |-> b[k].Quantity * b[k].UnitPrice]),
                first_time_customers |-> Cardinality({ Cust(il) : il \in
                        { x \in Range(b) : Dt(x) = first_purchase(Cust(x)) } })]]

\* a null (NaN) cell of a metric column; the metrics are counts and sums of
\* amounts, which are never negative
NullMetric == -1

\* DataFrame.head(n), n >= 0
HeadRows(df, n) == SubSeq(df, 1, IF n < Len(df) THEN n ELSE Len(df))

\* topn_kpis_slice_topn keeping the rows whose metric is null
topn_kpis_slice_topn_KeepNull(df, metric, n) ==
    HeadRows(StableSort(df, metric), n)

\* topn_kpis_slice_topn(df, metric, n): the rows with a metric, sorted by
\* metric descending and label ascending, cut after n rows
topn_kpis_slice_topn(df, metric, n) ==
    HeadRows(StableSort(SelectSeq(df, LAMBDA r : r[metric] # NullMetric), metric), n)

\* genre_catalog / artist_catalog: the number of tracks of a group value
CatalogSize(group_var, v) ==
    Cardinality({ tr \in Range(Track) :
                    (IF group_var = "Genre" THEN tr.Genre ELSE tr.Artist) = v })

\* query_catalog_sales(conn, group_var): per group value the distinct tracks
\* on the lines of every invoice of the working table
query_catalog_sales(t, group_var) ==
    LET lines == JoinedLines(t.rows)
        vs == SortSet({ GroupVal(group_var, il) : il \in Range(lines) }, "label")
    IN [n \in 1..Len(vs) |->
            [group_val |-> vs[n],
             unique_tracks_sold |->
                Cardinality({ il.TrackId : il \in
                    { x \in Range(lines) : GroupVal(group_var, x) = vs[n] } }),
             catalog_size |-> CatalogSize(group_var, vs[n])]]

\* the catalog columns merged onto one row (left join on group_val)
CatalogColumns(catalog_df, row) ==
    LET hits == SelectSeq(catalog_df, LAMBDA c : c.group_val = row.group_val)
    IN IF hits = <<>>
       THEN [unique_tracks_sold |-> NullMetric, catalog_size |-> NullMetric]
       ELSE [unique_tracks_sold |-> hits[1].unique_tracks_sold,
             catalog_size |-> hits[1].catalog_size]

\* enrich_catalog_kpis(conn, topn_df, group_var)
enrich_catalog_kpis(t, topn_df, group_var) ==
    [k \in 1..Len(topn_df) |->
        topn_df[k] @@ CatalogColumns(query_catalog_sales(t, group_var), topn_df[k])]

\* the parameters topn_kpis_format_display declares
FormatDisplayParams == {"conn", "df", "group_var", "total_revenue"}

\* a Python call binds: every keyword it passes is a declared parameter
CallBinds(params, keywords) == keywords \subseteq params

\* ------------------------------------------------------------------------
\* Orchestrator (services/kpis/shared.py)
\* ------------------------------------------------------------------------
GroupVars == <<"Genre", "Artist", "BillingCountry">>
TopnKey(group) == IF group = "Genre" THEN "topn_genre"
                  ELSE IF group = "Artist" THEN "topn_artist" ELSE "topn_country"
NumKey(group) == IF group = "Genre" THEN "genre_num"
                 ELSE IF group = "Artist" THEN "artist_num" ELSE "country_num"

\* the keywords get_shared_kpis passes to topn_kpis_format_display (beside
\* the positional conn and df)
FormatDisplayCall == {"conn", "df", "group_var", "total_revenue", "date_range"}

\* dict.get(key, default)
Get(d, key, default) == IF key \in DOMAIN d THEN d[key] ELSE default

\* get_shared_kpis past the empty-metadata return: the top-N loop, the
\* retention KPIs and the bundle
SharedKpisBundle(t, metrics, date_range, cohort_rows, top_n, offsets, metadata_kpis) ==
    LET retention_kpis == get_retention_kpis(t, date_range, cohort_rows, offsets)
        group_tables(group) ==
            [key \in { metrics[i].var_name : i \in 1..Len(metrics) } \cup {"num_vals"} |->
                IF key = "num_vals" THEN Get(metadata_kpis, NumKey(group), NA)
                ELSE topn_kpis_slice_topn(get_group_kpis_full(t, group, date_range), key, top_n)]
    IN IF metrics # <<>> /\ ~CallBinds(FormatDisplayParams, FormatDisplayCall)
            \* the first call of the metric loop does not bind
            THEN Raise("TypeError", {"core", "group_full", "slice"})
       ELSE IF retention_kpis.kind = "raise" THEN retention_kpis
       ELSE Dict([key \in {"metadata_kpis", "topn", "retention_kpis"} |->
                    IF key = "metadata_kpis" THEN metadata_kpis
                    ELSE IF key = "topn"
                        THEN [g \in { TopnKey(GroupVars[i]) : i \in 1..Len(GroupVars) } |->
                                group_tables(CHOOSE grp \in Range(GroupVars) : TopnKey(grp) = g)]
                    ELSE retention_kpis.d],
                 {"core", "group_full", "retention"}
                    \cup (IF metrics # <<>> THEN {"slice", "format"} ELSE {}))

\* get_shared_kpis without the empty-metadata return
get_shared_kpis_NoEmptyReturn(t, metrics, date_range, cohort_rows, top_n, offsets) ==
    LET metadata_kpis == get_subset_core_kpis(t, date_range)
    IN IF metadata_kpis.kind = "raise" THEN metadata_kpis
       ELSE SharedKpisBundle(t, metrics, date_range, cohort_rows, top_n, offsets, metadata_kpis.d)

\* get_shared_kpis(conn, metrics, date_range, cohort_df, top_n, offsets)
get_shared_kpis(t, metrics, date_range, cohort_rows, top_n, offsets) ==
    LET metadata_kpis == get_subset_core_kpis(t, date_range)
    IN IF metadata_kpis.kind = "raise" THEN metadata_kpis
       ELSE IF metadata_kpis.d = EmptyDict THEN Dict(EmptyDict, {"core"})
       ELSE SharedKpisBundle(t, metrics, date_range, cohort_rows, top_n, offsets, metadata_kpis.d)

\* ------------------------------------------------------------------------
\* Inputs the model enumerates
\* ------------------------------------------------------------------------
Sessions == {1, 2}
CountryChoices == {{}, {"USA"}, {"Canada"}}
GenreChoices == {{}, {"Jazz"}}
ArtistChoices == {{}, {"Nobody"}}
WhereClauses == { form_where_clause(c, g, a) :
                    c \in CountryChoices, g \in GenreChoices, a \in ArtistChoices }
Fingerprints == { hash_invoice_ids(CleanRows(EventsQuery(w))) : w \in WhereClauses }
PrevHashes == {Null} \cup Fingerprints

\* ------------------------------------------------------------------------
\* State
\* ------------------------------------------------------------------------
VARIABLES
    tbl,        \* the temp table filtered_invoices of the shared connection
    ret,        \* the last service call: arguments, locals, result
    held,       \* per session: the fingerprint get_events_shared last returned to it
    cohortCache,\* memo of get_retention_cohort_data_cached: key -> cached return
    kpiCache,   \* memo of get_shared_kpis_cached: key -> cached return
    eventsCache, \* memo of get_events_shared_cached: key -> cached return
    filt,       \* per session: the filter-country/-genre/-artist values
    dateInput,  \* per session: the filter-date value
    store,      \* per session: the dcc.Store components of the data pipeline
    pending,    \* per session: the callbacks triggered and not yet run
    cbRet,      \* the last callback run: arguments, locals, outcome
    frameA,     \* an InvoiceId column handed to hash_invoice_ids
    frameB,     \* another one
    hashes,     \* the digests of frameA and frameB, once computed
    topnArgs,   \* the arguments df, metric, n handed to topn_kpis_slice_topn
    topnOut,    \* what topn_kpis_slice_topn returned for them
    custArgs,   \* the purchases of one customer and the window of a query
    custOut,    \* the customer frame computed for them
    conn,       \* services.db._conn: the cached connection, or NoConn
    dbFile,     \* whether data/chinook.duckdb exists
    opened,     \* how many connections duckdb.connect has opened
    dbCall,     \* per thread: where its get_connection call stands and what it got
    connTables  \* per connection: the temp tables created through it

svcVars == <<tbl, ret, held>>
cacheVars == <<cohortCache, kpiCache>>
dashVars == <<filt, dateInput, store, pending, cbRet>>
dbVars == <<conn, dbFile, opened, dbCall, connTables>>
nonDbVars == <<tbl, ret, held, cohortCache, kpiCache, filt, dateInput, store, pending, cbRet,
               frameA, frameB, hashes, topnArgs, topnOut, custArgs, custOut, eventsCache>>
hashVars == <<frameA, frameB, hashes, topnArgs, topnOut, custArgs, custOut, dbVars, eventsCache>>
vars == <<tbl, ret, held, cohortCache, kpiCache, filt, dateInput, store, pending,
          cbRet, frameA, frameB, hashes, topnArgs, topnOut, custArgs, custOut, dbVars,
          eventsCache>>

NoTable == [exists |-> FALSE, rows |-> <<>>]
NoCall == [op |-> "none"]

\* ------------------------------------------------------------------------
\* get_events_shared (services/sql_core.py)
\* ------------------------------------------------------------------------
\* the query of get_events_shared, deduplicated and sorted, and the digest
\* of its InvoiceIds, for each where_clauses the model enumerates
Materialized ==
    [w \in WhereClauses |->
        [df_cleaned |-> CleanRows(EventsQuery(w)),
         new_hash |-> hash_invoice_ids(CleanRows(EventsQuery(w)))]]

\* get_events_shared skipping on equal hashes alone, without SHOW TABLES
EventsSharedResult_NoTableCheck(t, where_clauses, previous_hash) ==
    LET df_cleaned == Materialized[where_clauses].df_cleaned
        new_hash == Materialized[where_clauses].new_hash
    IN IF new_hash = previous_hash
       THEN [tbl |-> t, dfNone |-> TRUE, df |-> <<>>, hash |-> new_hash]
       ELSE [tbl |-> [exists |-> TRUE, rows |-> df_cleaned],
             dfNone |-> FALSE, df |-> df_cleaned, hash |-> new_hash]

\* the effect of one call on the working table t, and what it returns;
\* dfNone tells the returned frame is None (df is then not meaningful)
EventsSharedResult(t, where_clauses, previous_hash) ==
    LET df_cleaned == Materialized[where_clauses].df_cleaned
        new_hash == Materialized[where_clauses].new_hash
    IN IF new_hash = previous_hash /\ t.exists
       THEN [tbl |-> t, dfNone |-> TRUE, df |-> <<>>, hash |-> new_hash]
       ELSE [tbl |-> [exists |-> TRUE, rows |-> df_cleaned],
             dfNone |-> FALSE, df |-> df_cleaned, hash |-> new_hash]

\* one call get_events_shared(conn, where_clauses, previous_hash)
GetEventsSharedCall(caller, where_clauses, previous_hash) ==
    \E r \in {EventsSharedResult(tbl, where_clauses, previous_hash)} :
       /\ tbl' = r.tbl
       /\ ret' = [op |-> "get_events_shared", caller |-> caller,
                  where_clauses |-> where_clauses, previous_hash |-> previous_hash,
                  before |-> tbl, dfNone |-> r.dfNone, df |-> r.df, hash |-> r.hash]

\* any caller, any previous_hash
GetEventsShared ==
    /\ ret = NoCall
    /\ \E w \in WhereClauses, h \in PrevHashes : GetEventsSharedCall(0, w, h)
    /\ UNCHANGED <<held, cacheVars, dashVars, hashVars>>

\* ------------------------------------------------------------------------
\* Direct calls of the aggregators on the shared connection
\* ------------------------------------------------------------------------
DateRanges == Dates \X Dates
MaxOffsets == {NoOffset} \cup { <<n>> : n \in 0..MaxOffsetArg }
MetricLists == { <<>>,
                 <<[var_name |-> "revenue"]>>,
                 <<[var_name |-> "revenue"], [var_name |-> "num_customers"]>> }
OffsetLists == { <<1>>, <<1, 2>> }

GetSubsetCoreKpis ==
    /\ ret = NoCall
    /\ \E dr \in DateRanges :
         ret' = [op |-> "get_subset_core_kpis", date_range |-> dr,
                 result |-> get_subset_core_kpis(tbl, dr)]
    /\ UNCHANGED <<tbl, held, cacheVars, dashVars, hashVars>>

GetRetentionCohortData ==
    /\ ret = NoCall
    /\ \E dr \in DateRanges, mo \in MaxOffsets :
         ret' = [op |-> "get_retention_cohort_data", date_range |-> dr, max_offset |-> mo,
                 result |-> get_retention_cohort_data(tbl, dr, mo)]
    /\ UNCHANGED <<tbl, held, cacheVars, dashVars, hashVars>>

\* get_shared_kpis with the cohort table of the same range, computed first
GetSharedKpis ==
    /\ ret = NoCall
    /\ \E m \in MetricLists, dr \in DateRanges, o \in OffsetLists, n \in {1, TopN} :
         \E cohort \in {get_retention_cohort_data(tbl, dr, <<MaxOffsetArg>>)} :
            /\ cohort.kind = "df"
            /\ ret' = [op |-> "get_shared_kpis", metrics |-> m, date_range |-> dr,
                       offsets |-> o, top_n |-> n,
                       result |-> get_shared_kpis(tbl, m, dr, cohort.rows, n, o)]
    /\ UNCHANGED <<tbl, held, cacheVars, dashVars, hashVars>>

\* get_group_kpis_full on the working table
GetGroupKpisFull ==
    /\ ret = NoCall
    /\ \E g \in Range(GroupVars), dr \in DateRanges :
         ret' = [op |-> "get_group_kpis_full", group_var |-> g, date_range |-> dr,
                 result |-> IF ~tbl.exists THEN Raise("CatalogException", {"group_full"})
                            ELSE [kind |-> "df", rows |-> get_group_kpis_full(tbl, g, dr)]]
    /\ UNCHANGED <<tbl, held, cacheVars, dashVars, hashVars>>

\* enrich_catalog_kpis on the top-N slice of a group rollup, as
\* topn_kpis_format_display calls it for Genre and Artist
EnrichCatalogKpis ==
    /\ ret = NoCall
    /\ \E g \in {"Genre", "Artist"}, dr \in DateRanges, metric \in {"revenue", "tracks_sold"} :
         ret' = [op |-> "enrich_catalog_kpis", group_var |-> g, date_range |-> dr,
                 metric |-> metric,
                 result |-> IF ~tbl.exists THEN Raise("CatalogException", {"group_full"})
                            ELSE [kind |-> "df", rows |->
                                    enrich_catalog_kpis(tbl,
                                        topn_kpis_slice_topn(get_group_kpis_full(tbl, g, dr),
                                                             metric, TopN),
                                        g)]]
    /\ UNCHANGED <<tbl, held, cacheVars, dashVars, hashVars>>

\* get_retention_kpis with the cohort table of the same range
GetRetentionKpis ==
    /\ ret = NoCall
    /\ \E dr \in DateRanges, o \in OffsetLists :
         \E cohort \in {get_retention_cohort_data(tbl, dr, <<MaxOffsetArg>>)} :
            /\ cohort.kind = "df"
            /\ ret' = [op |-> "get_retention_kpis", date_range |-> dr, offsets |-> o,
                       df |-> IF tbl.exists THEN CustomerFrame(tbl, dr) ELSE <<>>,
                       result |-> get_retention_kpis(tbl, dr, cohort.rows, o)]
    /\ UNCHANGED <<tbl, held, cacheVars, dashVars, hashVars>>

\* the caller takes the result: calls on the shared connection are
\* synchronous, one at a time
Return ==
    /\ ret # NoCall
    /\ ret' = NoCall
    /\ UNCHANGED <<tbl, held, cacheVars, dashVars, hashVars>>

\* ------------------------------------------------------------------------
\* Memoized wrappers (services/cached_funs.py)
\* ------------------------------------------------------------------------
\* hash_dataframe / hash_kpi_bundle: the md5 of the serialized content, taken
\* as collision-free and named by the content it digests
hash_dataframe(rows) == [md5 |-> rows]
hash_kpi_bundle(bundle) == [md5 |-> bundle]

\* FILTER_META["metrics"]
METRICS_DICT == <<[var_name |-> "revenue"], [var_name |-> "num_customers"]>>

\* a memo: a set of entries [key, val]; Lookup gives the entries of a key
Lookup(memo, key) == { e \in memo : e.key = key }

\* str() of a sequence argument [t |-> "list" or "tuple", v |-> items], which
\* is how memoize writes an argument into its key: ['a', 'b'] or ('a', 'b')
ReprOf(x) == IF x.t = "list" THEN <<"[", x.v, "]">> ELSE <<"(", x.v, ")">>

\* get_retention_cohort_data_cached(date_range, max_offset) with the working
\* table t and the memo cc: the memo afterwards and what the call gives;
\* date_range is a tagged list or tuple, the body runs on list(date_range)
CohortCachedResult(t, cc, date_range, max_offset) ==
    LET key == <<ReprOf(date_range), max_offset>>
        df == get_retention_cohort_data(t, date_range.v, max_offset)
    IN IF Lookup(cc, key) # {}
       THEN [memo |-> cc, hit |-> TRUE, out |-> (CHOOSE e \in Lookup(cc, key) : TRUE).val]
       ELSE IF df.kind = "raise"
       THEN [memo |-> cc, hit |-> FALSE, out |-> df]
       ELSE LET val == [kind |-> "ok", rows |-> df.rows, signature |-> hash_dataframe(df.rows)]
            IN [memo |-> cc \cup {[key |-> key, val |-> val]}, hit |-> FALSE, out |-> val]

\* one call get_retention_cohort_data_cached(date_range, max_offset)
CohortCachedCall(caller, date_range, max_offset) ==
    \E r \in {CohortCachedResult(tbl, cohortCache, date_range, max_offset)} :
       /\ cohortCache' = r.memo
       /\ ret' = [op |-> "get_retention_cohort_data_cached", caller |-> caller,
                  date_range |-> date_range.v, passed_as |-> date_range.t,
                  max_offset |-> max_offset, hit |-> r.hit, result |-> r.out]

\* one call get_shared_kpis_cached(events_hash, date_range, max_offset,
\* offsets): a hit gives the memoized value; a miss fetches the cohort table
\* through its own memo, computes the bundle over the working table and
\* memoizes it; an exception leaves the bundle memo as it was
SharedKpisCachedCall(caller, events_hash, date_range, max_offset, offsets) ==
    LET key == <<events_hash, date_range, max_offset, offsets>>
        Gives(hit, out) ==
            ret' = [op |-> "get_shared_kpis_cached", caller |-> caller,
                    events_hash |-> events_hash, date_range |-> date_range,
                    max_offset |-> max_offset, offsets |-> offsets,
                    hit |-> hit, result |-> out]
    IN IF Lookup(kpiCache, key) # {}
       THEN /\ Gives(TRUE, (CHOOSE e \in Lookup(kpiCache, key) : TRUE).val)
            /\ UNCHANGED cacheVars
       ELSE \E cohort \in {CohortCachedResult(tbl, cohortCache,
                                                [t |-> "tuple", v |-> date_range], max_offset)} :
            /\ cohortCache' = cohort.memo
            /\ IF cohort.out.kind = "raise"
               THEN Gives(FALSE, cohort.out) /\ UNCHANGED kpiCache
               ELSE \E bundle \in {get_shared_kpis(tbl, METRICS_DICT, date_range,
                                                   cohort.out.rows, TopN, offsets)} :
                    IF bundle.kind = "raise"
                    THEN Gives(FALSE, bundle) /\ UNCHANGED kpiCache
                    ELSE \E val \in {[kind |-> "ok", bundle |-> bundle.d,
                                      kpi_hash |-> hash_kpi_bundle(bundle.d)]} :
                         /\ kpiCache' = kpiCache \cup {[key |-> key, val |-> val]}
                         /\ Gives(FALSE, val)

\* ------------------------------------------------------------------------
\* Sessions sharing the connection and the memos
\* ------------------------------------------------------------------------
\* the filter values a session chooses among
NoFilters == [country |-> {}, genre |-> {}, artist |-> {}]
FilterChoices == { NoFilters,
                   [country |-> {"Canada"}, genre |-> {}, artist |-> {}],
                   [country |-> {"Canada"}, genre |-> {"Jazz"}, artist |-> {}],
                   [country |-> {}, genre |-> {}, artist |-> {"Nobody"}] }
WhereOf(f) == form_where_clause(f.country, f.genre, f.artist)

\* the date range, max offset and offsets stores of the sessions
FullRange == <<D(1, 1), D(MaxMonth, MaxDay)>>
StoredMaxOffset == <<MaxOffsetArg>>
StoredOffsets == <<1, 2>>

\* session s changes its filters (or loads the page) and materializes,
\* handing get_events_shared the fingerprint it was last given
ApplyFilters(s) ==
    /\ ret = NoCall
    /\ \E f \in FilterChoices :
         /\ f # filt[s] \/ held[s] = Null
         /\ filt' = [filt EXCEPT ![s] = f]
         /\ GetEventsSharedCall(s, WhereOf(f), held[s])
         /\ held' = [held EXCEPT ![s] = ret'.hash]
    /\ UNCHANGED <<cacheVars, dateInput, store, pending, cbRet, hashVars>>

\* session s asks for the cohort table, passing tuple(date_range)
CohortCached(s) ==
    /\ ret = NoCall
    /\ held[s] # Null
    /\ CohortCachedCall(s, [t |-> "tuple", v |-> FullRange], StoredMaxOffset)
    /\ UNCHANGED <<tbl, held, kpiCache, dashVars, hashVars>>

\* session s asks for the cohort table, passing the date range as the list
\* a store holds
CohortCachedList(s) ==
    /\ ret = NoCall
    /\ held[s] # Null
    /\ CohortCachedCall(s, [t |-> "list", v |-> FullRange], StoredMaxOffset)
    /\ UNCHANGED <<tbl, held, kpiCache, dashVars, hashVars>>

\* session s asks for the KPI bundle of the fingerprint it holds
SharedKpisCached(s) ==
    /\ ret = NoCall
    /\ held[s] # Null
    /\ SharedKpisCachedCall(s, held[s], FullRange, StoredMaxOffset, StoredOffsets)
    /\ UNCHANGED <<tbl, held, dashVars, hashVars>>

\* an entry leaves a memo (its TTL ran out, or the capacity bound was met)
Evict ==
    /\ ret = NoCall
    /\ \/ \E e \in cohortCache : cohortCache' = cohortCache \ {e} /\ UNCHANGED kpiCache
       \/ \E e \in kpiCache : kpiCache' = kpiCache \ {e} /\ UNCHANGED cohortCache
    /\ UNCHANGED <<svcVars, dashVars, hashVars>>

\* ------------------------------------------------------------------------
\* The memoized materializer (services/cached_funs.py)
\* ------------------------------------------------------------------------
\* the filters and previous hashes the callers pass, and the capacity of
\* the memo
MaxEventsEntries == 3
EventsCachedFilters == { NoFilters, [country |-> {"Canada"}, genre |-> {}, artist |-> {}] }
EventsCachedHashes ==
    {Null} \cup { Materialized[WhereOf(f)].new_hash : f \in EventsCachedFilters }

\* get_events_shared_cached(where_clauses, previous_hash) with the working
\* table t and the memo ec: a hit gives the memoized pair and runs nothing;
\* a miss runs get_events_shared on list(where_clauses) and memoizes its pair
EventsCachedResult(t, ec, where_clauses, previous_hash) ==
    LET key == <<where_clauses, previous_hash>>
        r == EventsSharedResult(t, where_clauses, previous_hash)
    IN IF Lookup(ec, key) # {}
       THEN [memo |-> ec, tbl |-> t, hit |-> TRUE,
             out |-> (CHOOSE e \in Lookup(ec, key) : TRUE).val]
       ELSE [memo |-> ec \cup {[key |-> key,
                                val |-> [dfNone |-> r.dfNone, df |-> r.df, hash |-> r.hash]]},
             tbl |-> r.tbl, hit |-> FALSE,
             out |-> [dfNone |-> r.dfNone, df |-> r.df, hash |-> r.hash]]

\* session s calls get_events_shared_cached
EventsSharedCached(s) ==
    /\ ret = NoCall
    /\ \E f \in EventsCachedFilters, h \in EventsCachedHashes :
       \E r \in {EventsCachedResult(tbl, eventsCache, WhereOf(f), h)} :
          /\ r.hit \/ Cardinality(eventsCache) < MaxEventsEntries
          /\ eventsCache' = r.memo
          /\ tbl' = r.tbl
          /\ ret' = [op |-> "get_events_shared_cached", caller |-> s,
                     where_clauses |-> WhereOf(f), previous_hash |-> h,
                     before |-> tbl, hit |-> r.hit,
                     dfNone |-> r.out.dfNone, df |-> r.out.df, hash |-> r.out.hash]
    /\ UNCHANGED <<held, cacheVars, dashVars, frameA, frameB, hashes, topnArgs, topnOut,
                   custArgs, custOut, dbVars>>

\* an entry leaves the memo (its TTL ran out, or the capacity bound was met)
EvictEvents ==
    /\ ret = NoCall
    /\ \E e \in eventsCache : eventsCache' = eventsCache \ {e}
    /\ UNCHANGED <<svcVars, cacheVars, dashVars, frameA, frameB, hashes, topnArgs, topnOut,
                   custArgs, custOut, dbVars>>

\* ------------------------------------------------------------------------
\* Dash callbacks (callbacks/data_callbacks.py, callbacks/filter_callbacks.py)
\* ------------------------------------------------------------------------
\* the value of a store or of a callback argument, tagged with its Python
\* type: [t |-> "None"], [t |-> "str", v |-> ..], [t |-> "list", v |-> ..],
\* [t |-> "tuple", ..]
NoneStore == [t |-> "None"]
Str(x) == [t |-> "str", v |-> x]
List(x) == [t |-> "list", v |-> x]

\* bool(x)
Truthy(x) == CASE x.t = "None" -> FALSE
               [] x.t = "str" -> x.v # ""
               [] OTHER -> x.v # <<>>

\* a guard 'if not x: raise PreventUpdate' that never fires
PyNot_Never(x) == FALSE
\* not x
PyNot(x) == ~Truthy(x)

\* a == b: values of different types are never equal
PyEq(a, b) == a.t = b.t /\ a = b

\* previous_hash as get_events_shared compares it with its digest (a str):
\* only a str can be equal to it
AsPreviousHash(x) == IF x.t = "str" THEN x.v ELSE Null

\* the callbacks of the data pipeline and the components that trigger them
DataCallbacks == {"update_filtered_events", "update_retention_cohort", "update_dynamic_kpis"}
TriggeredBy(component) ==
    CASE component = "filter" -> {"update_filtered_events"}
      [] component = "filter-date" -> {"sync_date_range"}
      [] component = "events-shared-fingerprint" ->
            {"update_retention_cohort", "update_dynamic_kpis"}
      [] component = "cohort-fingerprint" -> {"update_dynamic_kpis"}
      [] OTHER -> {}

\* the values of filter-date: a pair of dates, or cleared
NoDate == <<>>
DateInputs == { FullRange, <<D(1, MaxDay), D(2, 1)>>, NoDate }

\* the stores of a freshly loaded page
NewStores == [events |-> NoneStore, dateRange |-> NoneStore, cohortData |-> NoneStore,
              cohortFp |-> NoneStore, kpisFp |-> NoneStore]

\* callback cb of session s has run with the outcome given: it leaves the
\* queue, and the callbacks its updated components trigger enter it
Ran(s, cb, outcome, info, updated) ==
    /\ pending' = [pending EXCEPT ![s] =
                    (@ \ {cb}) \cup UNION { TriggeredBy(c) : c \in updated }]
    /\ cbRet' = [op |-> cb, s |-> s, outcome |-> outcome, info |-> info]

\* the browser of session s loads the page anew: default filters, fresh
\* stores, and every callback without prevent_initial_call queued
LoadPage(s) ==
    /\ filt' = [filt EXCEPT ![s] = NoFilters]
    /\ dateInput' = [dateInput EXCEPT ![s] = FullRange]
    /\ store' = [store EXCEPT ![s] = NewStores]
    /\ pending' = [pending EXCEPT ![s] = DataCallbacks]
    /\ cbRet' = [op |-> "LoadPage", s |-> s]
    /\ UNCHANGED <<svcVars, cacheVars, hashVars>>

\* the user of session s changes a country/genre/artist filter
ChangeFilters(s) ==
    /\ \E f \in FilterChoices \ {filt[s]} : filt' = [filt EXCEPT ![s] = f]
    /\ pending' = [pending EXCEPT ![s] = @ \cup TriggeredBy("filter")]
    /\ cbRet' = [op |-> "ChangeFilters", s |-> s]
    /\ UNCHANGED <<svcVars, cacheVars, dateInput, store, hashVars>>

\* the user of session s changes the date range
ChangeDate(s) ==
    /\ \E v \in DateInputs \ {dateInput[s]} : dateInput' = [dateInput EXCEPT ![s] = v]
    /\ pending' = [pending EXCEPT ![s] = @ \cup TriggeredBy("filter-date")]
    /\ cbRet' = [op |-> "ChangeDate", s |-> s]
    /\ UNCHANGED <<svcVars, cacheVars, filt, store, hashVars>>

\* update_filtered_events(country, genre, artist, prev_hash): new_hash is
\* the pair get_events_shared returns; a pair holding a DataFrame cannot
\* be written to a store (the callback fails, nothing is updated)
update_filtered_events(s) ==
    /\ "update_filtered_events" \in pending[s]
    /\ \E prev_hash \in {store[s].events} :
       \E r \in {EventsSharedResult(tbl, WhereOf(filt[s]), AsPreviousHash(prev_hash))} :
       \E new_hash \in {[t |-> "tuple", dfNone |-> r.dfNone, hash |-> r.hash]} :
       \E info \in {[filters |-> filt[s], prev_hash |-> prev_hash, new_hash |-> new_hash]} :
          /\ tbl' = r.tbl
          /\ IF PyEq(new_hash, prev_hash)
             THEN /\ Ran(s, "update_filtered_events", "PreventUpdate", info, {})
                  /\ UNCHANGED store
             ELSE IF ~new_hash.dfNone
             THEN /\ Ran(s, "update_filtered_events", "error", info, {})
                  /\ UNCHANGED store
             ELSE /\ Ran(s, "update_filtered_events", "updated", info,
                         {"events-shared-fingerprint"})
                  /\ store' = [store EXCEPT ![s].events = List(<<Null, new_hash.hash>>)]
    /\ UNCHANGED <<ret, held, cacheVars, filt, dateInput, hashVars>>

\* sync_date_range(value): the range rounded to whole months
sync_date_range(s) ==
    /\ "sync_date_range" \in pending[s]
    /\ IF dateInput[s] = NoDate
       THEN /\ Ran(s, "sync_date_range", "PreventUpdate", [value |-> dateInput[s]], {})
            /\ UNCHANGED store
       ELSE \E rounded_dates \in {<<MonthStart(dateInput[s][1]), MonthEnd(dateInput[s][2])>>} :
            /\ Ran(s, "sync_date_range", "updated", [value |-> dateInput[s]],
                   {"date-range-store"})
            /\ store' = [store EXCEPT ![s].dateRange = List(rounded_dates)]
    /\ UNCHANGED <<svcVars, cacheVars, filt, dateInput, hashVars>>

\* update_retention_cohort(fingerprint, date_range, max_offset)
update_retention_cohort(s) ==
    /\ "update_retention_cohort" \in pending[s]
    /\ \E info \in {[fingerprint |-> store[s].events, date_range |-> store[s].dateRange]} :
       IF PyNot(info.fingerprint)
       THEN /\ Ran(s, "update_retention_cohort", "PreventUpdate", info, {})
            /\ UNCHANGED <<ret, cacheVars, store>>
       ELSE IF info.date_range.t = "None"
       THEN /\ Ran(s, "update_retention_cohort", "error", info, {})
            /\ UNCHANGED <<ret, cacheVars, store>>
       ELSE /\ CohortCachedCall(s, [t |-> "tuple", v |-> info.date_range.v], StoredMaxOffset)
            /\ UNCHANGED kpiCache
            /\ IF ret'.result.kind = "raise"
               THEN /\ Ran(s, "update_retention_cohort", "error", info, {})
                    /\ UNCHANGED store
               ELSE /\ Ran(s, "update_retention_cohort", "updated", info,
                           {"retention-cohort-data", "cohort-fingerprint"})
                    /\ store' = [store EXCEPT ![s].cohortData = List(ret'.result.rows),
                                              ![s].cohortFp = Str(ret'.result.signature)]
    /\ UNCHANGED <<tbl, held, filt, dateInput, hashVars>>

\* update_dynamic_kpis(events_hash, cohort_hash, date_range, max_offset,
\* offsets)
update_dynamic_kpis(s) ==
    /\ "update_dynamic_kpis" \in pending[s]
    /\ \E info \in {[events_hash |-> store[s].events, cohort_hash |-> store[s].cohortFp,
                     date_range |-> store[s].dateRange]} :
       IF PyNot(info.events_hash) \/ PyNot(info.cohort_hash)
       THEN /\ Ran(s, "update_dynamic_kpis", "PreventUpdate", info, {})
            /\ UNCHANGED <<ret, cacheVars, store>>
       ELSE IF info.date_range.t = "None"
       THEN /\ Ran(s, "update_dynamic_kpis", "error", info, {})
            /\ UNCHANGED <<ret, cacheVars, store>>
       ELSE /\ SharedKpisCachedCall(s, info.events_hash, info.date_range.v,
                                    StoredMaxOffset, StoredOffsets)
            /\ IF ret'.result.kind = "raise"
               THEN /\ Ran(s, "update_dynamic_kpis", "error", info, {})
                    /\ UNCHANGED store
               ELSE /\ Ran(s, "update_dynamic_kpis", "updated", info, {"kpis-fingerprint"})
                    /\ store' = [store EXCEPT ![s].kpisFp = Str(ret'.result.kpi_hash)]
    /\ UNCHANGED <<tbl, held, filt, dateInput, hashVars>>

\* ------------------------------------------------------------------------
\* hash_invoice_ids applied to two frames
\* ------------------------------------------------------------------------
RECURSIVE SeqsUpTo(_, _)
SeqsUpTo(S, n) ==
    IF n = 0 THEN {<<>>}
    ELSE LET shorter == SeqsUpTo(S, n - 1)
         IN shorter \cup { Append(q, x) : q \in shorter, x \in S }

FrameIds == {1, 2, 10}
Columns == SeqsUpTo({ <<x>> : x \in FrameIds } \cup {NaN}, MaxFrameLen)
NoHashes == <<>>

HashFrames ==
    /\ hashes = NoHashes
    /\ hashes' = <<HashIdColumn(frameA), HashIdColumn(frameB)>>
    /\ UNCHANGED <<frameA, frameB, topnArgs, topnOut, custArgs, custOut, dbVars, eventsCache, svcVars, cacheVars, dashVars>>

\* ------------------------------------------------------------------------
\* topn_kpis_slice_topn applied to a frame
\* ------------------------------------------------------------------------
MaxTopnLen == 3
TopnLabels == {"ACDC", "Brazil", "Canada"}
TopnMetricValues == {NullMetric, 1, 2}
TopnFrames == SeqsUpTo([group_val : TopnLabels, revenue : TopnMetricValues], MaxTopnLen)
NoTopnCall == <<>>

SliceTopn ==
    /\ topnOut = NoTopnCall
    /\ topnOut' = <<topn_kpis_slice_topn(topnArgs.df, topnArgs.metric, topnArgs.n)>>
    /\ UNCHANGED <<topnArgs, frameA, frameB, hashes, custArgs, custOut, dbVars, eventsCache, svcVars, cacheVars, dashVars>>

\* the boundary query and the derived columns of get_retention_kpis for one
\* customer: a table holding the customer's purchases, one per date
MaxPurchases == 4
PurchaseSets == { P \in SUBSET Dates : Cardinality(P) >= 1 /\ Cardinality(P) <= MaxPurchases }
PurchasesTable(P) ==
    LET ds == SortSet({ <<DayNo(x), 0>> : x \in P }, "cohort")
    IN [exists |-> TRUE,
        rows |-> [k \in 1..Len(ds) |->
                    [InvoiceId |-> k, CustomerId |-> 1,
                     dt |-> D(MonthOfDay(ds[k][1]), ds[k][1] - (MonthOfDay(ds[k][1]) - 1) * MaxDay)]]]
NoFrame == [op |-> "none"]
CustomerFrameOf ==
    /\ custOut = NoFrame
    /\ custOut' = [op |-> "frame",
                   df |-> CustomerFrame(PurchasesTable(custArgs.purchases), custArgs.date_range)]
    /\ UNCHANGED <<custArgs, topnArgs, topnOut, frameA, frameB, hashes, dbVars, eventsCache, svcVars, cacheVars, dashVars>>

\* ------------------------------------------------------------------------
\* The shared connection (services/db.py)
\* ------------------------------------------------------------------------
\* thread 0 imports the modules (FILTER_META = get_filter_metadata() calls
\* get_connection while they load); the others serve requests once the
\* import has gone through
MainThread == 0
Threads == {0, 1, 2}
MaxOpens == 2
NoConn == 0
TempTables == {"filtered_invoices", "genre_catalog", "artist_catalog"}
Idle == [pc |-> "idle", got |-> NoConn, seen |-> {}]
Serving == dbCall[MainThread].pc = "returned"

\* if _conn is not None: return _conn, never looking at the cache
Reuse_Never(cached) == FALSE
\* if _conn is not None: return _conn
Reuse(cached) == cached # NoConn

\* the rest of get_connection connecting whether or not the file exists
OpenConnection_NoCheck(exists, cached, n) ==
    [pc |-> "returned", conn |-> n + 1, opened |-> n + 1]
\* the rest of get_connection: raise if the path does not exist, else
\* connect and cache the connection
OpenConnection(exists, cached, n) ==
    IF ~exists THEN [pc |-> "raised", conn |-> cached, opened |-> n]
    ELSE [pc |-> "returned", conn |-> n + 1, opened |-> n + 1]

\* thread t calls get_connection and reads _conn
GetConnectionEnter(t) ==
    /\ dbCall[t].pc # "checked"
    /\ t # MainThread => Serving
    /\ dbCall' = [dbCall EXCEPT ![t] =
                    IF Reuse(conn) THEN [@ EXCEPT !.pc = "returned", !.got = conn]
                    ELSE [@ EXCEPT !.pc = "checked", !.got = NoConn]]
    /\ UNCHANGED <<conn, dbFile, opened, connTables, nonDbVars>>

\* thread t, having found no cached connection, checks the path and connects
GetConnectionOpen(t) ==
    /\ dbCall[t].pc = "checked"
    /\ opened < MaxOpens
    /\ \E r \in {OpenConnection(dbFile, conn, opened)} :
         /\ conn' = r.conn
         /\ opened' = r.opened
         /\ dbCall' = [dbCall EXCEPT ![t] =
                         [@ EXCEPT !.pc = r.pc,
                                   !.got = IF r.pc = "returned" THEN r.conn ELSE NoConn]]
    /\ UNCHANGED <<dbFile, connTables, nonDbVars>>

\* thread t creates a temp table through the connection it was given
CreateTempTable(t) ==
    /\ dbCall[t].pc = "returned"
    /\ \E name \in TempTables :
         connTables' = [connTables EXCEPT ![dbCall[t].got] = @ \cup {name}]
    /\ UNCHANGED <<conn, dbFile, opened, dbCall, nonDbVars>>

\* thread t lists the temp tables of the connection it was given
ShowTables(t) ==
    /\ dbCall[t].pc = "returned"
    /\ dbCall' = [dbCall EXCEPT ![t].seen = connTables[dbCall[t].got]]
    /\ UNCHANGED <<conn, dbFile, opened, connTables, nonDbVars>>

\* the database file appears or disappears
DbFileChanges ==
    /\ dbFile' = ~dbFile
    /\ UNCHANGED <<conn, opened, dbCall, connTables, nonDbVars>>

InitDb ==
    /\ conn = NoConn
    /\ dbFile \in BOOLEAN
    /\ opened = 0
    /\ dbCall = [t \in Threads |-> Idle]
    /\ connTables = [c \in 1..MaxOpens |-> {}]

\* ------------------------------------------------------------------------
\* Initial states
\* ------------------------------------------------------------------------
InitSvc ==
    /\ tbl = NoTable
    /\ ret = NoCall
    /\ held = [s \in Sessions |-> Null]

InitCache ==
    /\ cohortCache = {}
    /\ kpiCache = {}

InitDash ==
    /\ filt = [s \in Sessions |-> NoFilters]
    /\ dateInput = [s \in Sessions |-> FullRange]
    /\ store = [s \in Sessions |-> NewStores]
    /\ pending = [s \in Sessions |-> DataCallbacks]
    /\ cbRet = NoCall

InitHash ==
    /\ frameA = <<>>
    /\ frameB = <<>>
    /\ hashes = NoHashes
    /\ topnArgs = NoTopnCall
    /\ topnOut = NoTopnCall
    /\ custArgs = NoFrame
    /\ custOut = NoFrame
    /\ eventsCache = {}
    /\ InitDb

Init == InitSvc /\ InitCache /\ InitDash /\ InitHash

Next == GetEventsShared \/ GetSubsetCoreKpis \/ GetRetentionCohortData \/ GetSharedKpis
        \/ GetRetentionKpis \/ GetGroupKpisFull \/ EnrichCatalogKpis \/ Return

Spec == Init /\ [][Next]_vars

InitFrames ==
    /\ InitSvc /\ InitCache /\ InitDash
    /\ frameA \in Columns
    /\ frameB \in Columns
    /\ hashes = NoHashes
    /\ topnArgs = NoTopnCall
    /\ topnOut = NoTopnCall
    /\ custArgs = NoFrame
    /\ custOut = NoFrame
    /\ eventsCache = {}
    /\ InitDb

NextHash == HashFrames

SpecHash == InitFrames /\ [][NextHash]_vars

InitTopn ==
    /\ InitSvc /\ InitCache /\ InitDash
    /\ frameA = <<>>
    /\ frameB = <<>>
    /\ hashes = NoHashes
    /\ topnArgs \in [df : TopnFrames, metric : {"revenue"}, n : 0..MaxTopnLen]
    /\ topnOut = NoTopnCall
    /\ custArgs = NoFrame
    /\ custOut = NoFrame
    /\ eventsCache = {}
    /\ InitDb

NextTopn == SliceTopn

SpecTopn == InitTopn /\ [][NextTopn]_vars

InitCustomer ==
    /\ InitSvc /\ InitCache /\ InitDash
    /\ frameA = <<>>
    /\ frameB = <<>>
    /\ hashes = NoHashes
    /\ topnArgs = NoTopnCall
    /\ topnOut = NoTopnCall
    /\ custArgs \in [purchases : PurchaseSets, date_range : DateRanges]
    /\ custOut = NoFrame
    /\ eventsCache = {}
    /\ InitDb

NextCustomer == CustomerFrameOf

SpecCustomer == InitCustomer /\ [][NextCustomer]_vars

NextDb ==
    \/ \E t \in Threads : GetConnectionEnter(t)
    \/ \E t \in Threads : GetConnectionOpen(t)
    \/ \E t \in Threads : CreateTempTable(t)
    \/ \E t \in Threads : ShowTables(t)
    \/ DbFileChanges

SpecDb == Init /\ [][NextDb]_vars

NextEvents ==
    \/ \E s \in Sessions : EventsSharedCached(s)
    \/ EvictEvents
    \/ Return

SpecEvents == Init /\ [][NextEvents]_vars

NextCache ==
    \/ \E s \in Sessions : ApplyFilters(s)
    \/ \E s \in Sessions : CohortCached(s)
    \/ \E s \in Sessions : CohortCachedList(s)
    \/ \E s \in Sessions : SharedKpisCached(s)
    \/ Evict
    \/ Return

SpecCache == Init /\ [][NextCache]_vars

\* the dashboard followed in one browser session: the browser loads the
\* page, the user changes filters and dates, and the queued callbacks run one
\* at a time
DashSessions == {1}
NextDash ==
    \/ \E s \in DashSessions : LoadPage(s)
    \/ \E s \in DashSessions : ChangeFilters(s)
    \/ \E s \in DashSessions : ChangeDate(s)
    \/ \E s \in DashSessions : update_filtered_events(s)
    \/ \E s \in DashSessions : sync_date_range(s)
    \/ \E s \in DashSessions : update_retention_cohort(s)
    \/ \E s \in DashSessions : update_dynamic_kpis(s)

\* a queued callback is run in the end
DashFairness ==
    \A s \in DashSessions :
        /\ WF_vars(update_filtered_events(s))
        /\ WF_vars(sync_date_range(s))
        /\ WF_vars(update_retention_cohort(s))
        /\ WF_vars(update_dynamic_kpis(s))

SpecDash == Init /\ [][NextDash]_vars /\ DashFairness

\* ------------------------------------------------------------------------
\* Properties of the materializer and of the aggregators (Spec)
\* ------------------------------------------------------------------------
\* the invoices with at least one line that passes every clause
MatchingInvoices(where_clauses) ==
    { il.InvoiceId : il \in
        { x \in Range(InvoiceLine) :
            \A k \in 1..Len(where_clauses) :
                ClauseHolds(where_clauses[k], InvoiceOf(x.InvoiceId), TrackOf(x.TrackId)) } }

\* t is the working table freshly written for where_clauses: one row per
\* matching invoice, ordered by customer and date
HoldsSubsetOf(t, where_clauses) ==
    /\ t.exists
    /\ { r.InvoiceId : r \in Range(t.rows) } = MatchingInvoices(where_clauses)
    /\ Len(t.rows) = Cardinality(MatchingInvoices(where_clauses))
    /\ \A i \in 1..Len(t.rows) :
         /\ t.rows[i].CustomerId = InvoiceOf(t.rows[i].InvoiceId).CustomerId
         /\ t.rows[i].dt = InvoiceOf(t.rows[i].InvoiceId).InvoiceDate
         /\ \A j \in i..Len(t.rows) : RowLeq(t.rows[i], t.rows[j])

RowsInWindow(date_range) ==
    { r \in Range(tbl.rows) :
        /\ r.dt.m >= date_range[1].m
        /\ r.dt.m <= date_range[2].m }

\* the steps a zero-row call must not perform
GroupOrRetentionWork == {"group_full", "slice", "format", "enrich", "retention"}

\* C8: when no row of filtered_invoices falls in the month-snapped date
\* range, get_subset_core_kpis returns {} and get_shared_kpis returns {}
\* without raising, and the call performs no group rollup, top-N slice,
\* enrichment or retention KPI computation.
C8_ZeroRowWindow ==
    (/\ ret.op \in {"get_subset_core_kpis", "get_shared_kpis"}
     /\ tbl.exists
     /\ RowsInWindow(ret.date_range) = {}) =>
        /\ ret.result.kind = "dict"
        /\ DOMAIN ret.result.d = {}
        /\ ret.result.work \cap GroupOrRetentionWork = {}

\* C8: the orchestrator called with a metric list on a table that holds rows,
\* none of them in the window
C8_Witness ==
    /\ ret.op = "get_shared_kpis"
    /\ ret.metrics # <<>>
    /\ tbl.exists
    /\ tbl.rows # <<>>
    /\ RowsInWindow(ret.date_range) = {}
    /\ ret.result = Dict(EmptyDict, {"core"})

\* C9: for every non-empty date-bounded subset and every metrics list whose
\* entries carry var_name, get_shared_kpis returns, without raising, a dict
\* keyed exactly metadata_kpis, topn, retention_kpis, whose topn is keyed
\* exactly topn_genre, topn_artist, topn_country, each holding one ranked
\* list per requested metric plus num_vals.
C9_SharedKpisBundleShape ==
    (/\ ret.op = "get_shared_kpis"
     /\ tbl.exists
     /\ RowsInWindow(ret.date_range) # {}) =>
        /\ ret.result.kind = "dict"
        /\ DOMAIN ret.result.d = {"metadata_kpis", "topn", "retention_kpis"}
        /\ DOMAIN ret.result.d.topn = {"topn_genre", "topn_artist", "topn_country"}
        /\ \A g \in DOMAIN ret.result.d.topn :
             DOMAIN ret.result.d.topn[g] =
                { ret.metrics[i].var_name : i \in 1..Len(ret.metrics) } \cup {"num_vals"}

\* the derived rates of the core KPIs
RateKeys == {"cust_per_new", "revenue_per_month", "revenue_per_cust", "revenue_per_purchase"}

\* a finite formatted value: a whole number of hundredths
FiniteFormatted(v) == v.fmt \in {"percent", "dollar"} /\ v.scaled \in Nat

\* C10: get_subset_core_kpis returns {} if and only if zero rows of
\* filtered_invoices fall in the date-bounded subset; otherwise it returns
\* every KPI key, and each derived rate is a finite formatted value or the
\* 'NA' sentinel, never an exception, NaN or Inf.
C10_CoreKpisEmptyIffZeroRows ==
    (ret.op = "get_subset_core_kpis" /\ tbl.exists) =>
        /\ ret.result.kind = "dict"
        /\ (DOMAIN ret.result.d = {}) <=> (RowsInWindow(ret.date_range) = {})
        /\ RowsInWindow(ret.date_range) # {} =>
             /\ DOMAIN ret.result.d = CoreKpiKeys
             /\ \A k \in RateKeys : ret.result.d[k] = NA \/ FiniteFormatted(ret.result.d[k])

\* C10: a call on a window that holds rows, of a single customer who is not
\* new in it, so that a rate of zero is returned beside non-zero ones
C10_Witness ==
    /\ ret.op = "get_subset_core_kpis"
    /\ tbl.exists
    /\ RowsInWindow(ret.date_range) # {}
    /\ ret.result.d["cust_per_new"] = [fmt |-> "percent", scaled |-> 0]
    /\ ret.result.d["revenue_per_cust"].scaled > 0

\* ------------------------------------------------------------------------
\* Properties of the fingerprint (SpecHash)
\* ------------------------------------------------------------------------
\* the set of non-null ids of an InvoiceId column
IdSet(col) == { col[i][1] : i \in { j \in 1..Len(col) : col[j] # NaN } }

\* C2: hash_invoice_ids depends only on the set of non-null InvoiceIds: the
\* digests of two frames are equal if and only if the frames contain the
\* same set of InvoiceIds, whatever the order and the multiplicity.
C2_HashDependsOnlyOnIdSet ==
    hashes # NoHashes =>
        ((hashes[1] = hashes[2]) <=> (IdSet(frameA) = IdSet(frameB)))

\* ------------------------------------------------------------------------
\* Properties of the memoized wrappers and of the shared table (SpecCache)
\* ------------------------------------------------------------------------
\* C3: get_retention_cohort_data_cached(date_range, max_offset) returns the
\* cohort table of the currently materialized subset: a table computed while
\* the working table held one subset is never returned once the working
\* table holds a subset with a different fingerprint.
C3_CohortCachedIsOfCurrentSubset ==
    (ret.op = "get_retention_cohort_data_cached" /\ ret.result.kind = "ok") =>
        ret.result.rows =
            get_retention_cohort_data(tbl, ret.date_range, ret.max_offset).rows

\* the working table holding the subset of fingerprint h
TableOf(h) ==
    LET f == CHOOSE x \in FilterChoices :
                hash_invoice_ids(CleanRows(EventsQuery(WhereOf(x)))) = h
    IN [exists |-> TRUE, rows |-> CleanRows(EventsQuery(WhereOf(f)))]

\* the bundle computed from scratch over the subset of fingerprint h
BundleFromScratch(h, date_range, max_offset, offsets) ==
    get_shared_kpis(TableOf(h), METRICS_DICT, date_range,
                    get_retention_cohort_data(TableOf(h), date_range, max_offset).rows,
                    TopN, offsets)

\* C4: in every interleaving of the sessions, the bundle get_shared_kpis_cached
\* stores and returns under key (events_hash H, date_range, max_offset,
\* offsets) equals the bundle computed from scratch over the subset whose
\* fingerprint is H.
C4_CachedBundleIsOfItsKey ==
    (ret.op = "get_shared_kpis_cached" /\ ret.result.kind = "ok") =>
        \E fresh \in {BundleFromScratch(ret.events_hash, ret.date_range,
                                        ret.max_offset, ret.offsets)} :
            /\ fresh.kind = "dict"
            /\ fresh.d = ret.result.bundle

\* C5: after any get_events_shared call returns fingerprint fp to a session
\* (the (None, fp) skip path included), the shared working table holds the
\* subset whose invoice-id set has fingerprint fp.
C5_TableHoldsReturnedFingerprint ==
    (ret.op = "get_events_shared" /\ ret.caller \in Sessions) =>
        /\ tbl.exists
        /\ hash_invoice_ids(tbl.rows) = ret.hash

\* ------------------------------------------------------------------------
\* Properties of the Dash callbacks (SpecDash)
\* ------------------------------------------------------------------------
\* C6: update_filtered_events gates on fingerprint equality alone: when the
\* materializer's fingerprint differs from the stored one the callback stores
\* the new fingerprint string in events-shared-fingerprint, and when it
\* equals the stored one the callback raises PreventUpdate and leaves the
\* store as it was.
C6_GatesOnFingerprintEquality ==
    cbRet.op = "update_filtered_events" =>
        \E fp \in {Str(cbRet.info.new_hash.hash)} :
            IF cbRet.info.prev_hash = fp
            THEN /\ cbRet.outcome = "PreventUpdate"
                 /\ store[cbRet.s].events = cbRet.info.prev_hash
            ELSE /\ cbRet.outcome = "updated"
                 /\ store[cbRet.s].events = fp

\* sync_date_range has written the user's new range to date-range-store
DateSynced(s) ==
    /\ cbRet.op = "sync_date_range"
    /\ cbRet.s = s
    /\ cbRet.outcome = "updated"

\* callback cb of session s has recomputed its outputs for the range that
\* date-range-store holds
RecomputedBy(s, cb) ==
    /\ cbRet.op = cb
    /\ cbRet.s = s
    /\ cbRet.outcome = "updated"
    /\ cbRet.info.date_range = store[s].dateRange

\* the user of session s has changed a filter, or loaded the page anew
FiltersTouched(s) == cbRet.op \in {"ChangeFilters", "LoadPage"} /\ cbRet.s = s

\* C7: when the user changes the date range and the country/genre/artist
\* filters stay the same from then on, the cohort data and the cohort
\* fingerprint, and the KPI fingerprint, are eventually recomputed for the
\* new date range.
C7_DateChangeRecomputes ==
    \A s \in DashSessions :
        /\ DateSynced(s) ~>
              (RecomputedBy(s, "update_retention_cohort") \/ FiltersTouched(s))
        /\ DateSynced(s) ~>
              (RecomputedBy(s, "update_dynamic_kpis") \/ FiltersTouched(s))

\* ------------------------------------------------------------------------
\* Properties of topn_kpis_slice_topn (SpecTopn)
\* ------------------------------------------------------------------------
\* row a comes strictly before row b in the order (metric descending, then
\* group label ascending)
TopnBefore(a, b, metric) ==
    \/ a[metric] > b[metric]
    \/ a[metric] = b[metric] /\ LabelRank(a.group_val) < LabelRank(b.group_val)

\* the rows of df that have a metric, as a sequence in the order of df
WithMetric(df, metric) == SelectSeq(df, LAMBDA r : r[metric] # NullMetric)

\* the place of the i-th row of v in the total order: after the rows that
\* come strictly before it and after the equal rows that precede it in v
PlaceInOrder(v, i, metric) ==
    1 + Cardinality({ j \in 1..Len(v) : TopnBefore(v[j], v[i], metric) })
      + Cardinality({ j \in 1..(i - 1) : ~TopnBefore(v[j], v[i], metric)
                                          /\ ~TopnBefore(v[i], v[j], metric) })

\* v in the total order
InTotalOrder(v, metric) ==
    [p \in 1..Len(v) |-> v[CHOOSE i \in 1..Len(v) : PlaceInOrder(v, i, metric) = p]]

\* C11: for every table, metric and n, topn_kpis_slice_topn returns the first
\* min(n, number of rows with a non-null metric) rows of the total order
\* (metric descending, then group label ascending): rows with a null metric
\* are excluded and equal metrics appear in the order of their labels, also
\* at the cut-off.
C11_TopnIsPrefixOfTotalOrder ==
    topnOut # NoTopnCall =>
        \E v \in {WithMetric(topnArgs.df, topnArgs.metric)} :
        \E k \in {IF topnArgs.n < Len(v) THEN topnArgs.n ELSE Len(v)} :
            /\ Len(topnOut[1]) = k
            /\ topnOut[1] = SubSeq(InTotalOrder(v, topnArgs.metric), 1, k)

\* a frame with a null metric and with a tie at the cut-off, the greater
\* label first in the frame, has been sliced
C11_Witness ==
    /\ topnOut # NoTopnCall
    /\ topnArgs.n = 1
    /\ topnArgs.df = <<[group_val |-> "ACDC", revenue |-> NullMetric],
                       [group_val |-> "Canada", revenue |-> 2],
                       [group_val |-> "Brazil", revenue |-> 2]>>
    /\ topnOut[1] = <<[group_val |-> "Brazil", revenue |-> 2]>>

\* C12: every row of the table returned by get_retention_cohort_data has
\* 1 <= month_offset <= max_offset (the given max_offset, or the one derived
\* when none is given); no row has month_offset = 0
C12_OffsetsBetweenOneAndMax ==
    (ret.op = "get_retention_cohort_data" /\ ret.result.kind = "df") =>
        \A i \in 1..Len(ret.result.rows) :
            /\ ret.result.rows[i].month_offset >= 1
            /\ ret.result.rows[i].month_offset <=
                 (IF ret.max_offset = NoOffset THEN TableMonthSpan(tbl.rows)
                  ELSE ret.max_offset[1])
\* a returned table with rows, over a window that also holds a purchase made
\* in the customer's cohort month (offset 0)
C12_Witness ==
    /\ ret.op = "get_retention_cohort_data"
    /\ ret.result.kind = "df"
    /\ ret.result.rows # <<>>
    /\ \E r \in Range(tbl.rows) :
         /\ Between(r.dt, ret.date_range[1], ret.date_range[2])
         /\ InvoiceOf(r.InvoiceId).InvoiceDate.m = CohortMonth(r.CustomerId)

\* customers of the working table with a purchase inside the window of the
\* returned call, and those of them with a purchase strictly before its start
ActiveInWindow ==
    { r.CustomerId : r \in { x \in Range(tbl.rows) :
                               Between(x.dt, ret.date_range[1], ret.date_range[2]) } }
WithHistory ==
    { c \in ActiveInWindow :
        \E r \in Range(tbl.rows) : r.CustomerId = c /\ DateLt(r.dt, ret.date_range[1]) }
RetentionKpisReturned ==
    /\ ret.op = "get_retention_kpis"
    /\ ret.result.kind = "dict"
    /\ ret.result.d # EmptyDict

\* C13: num_new counts the customers active in the window with no purchase
\* strictly before the window start, and ret_n_return counts those with at
\* least one purchase strictly before it
C13_NewAndReturningByHistory ==
    RetentionKpisReturned =>
        /\ ret.result.d[<<"num_new", 0>>] =
             format_kpi_value(Num(Cardinality(ActiveInWindow \ WithHistory), 1), "number")
        /\ ret.result.d[<<"ret_n_return", 0>>] =
             format_kpi_value(Num(Cardinality(WithHistory), 1), "number")

\* customers active in the window with more than one purchase inside it, and
\* those with a purchase after its end
RepeatInWindow ==
    { c \in ActiveInWindow :
        Cardinality({ r \in Range(tbl.rows) :
                        /\ r.CustomerId = c
                        /\ Between(r.dt, ret.date_range[1], ret.date_range[2]) }) > 1 }
WithLaterPurchase ==
    { c \in ActiveInWindow :
        \E r \in Range(tbl.rows) : r.CustomerId = c /\ DateLt(ret.date_range[2], r.dt) }

\* C14: ret_n_conv counts the customers that are new in the window (no
\* purchase before its start) and have more than one purchase inside it or
\* none after its end; a customer with earlier history is never counted
C14_ConversionOnlyOfNewCustomers ==
    RetentionKpisReturned =>
        ret.result.d[<<"ret_n_conv", 0>>] =
            format_kpi_value(
                Num(Cardinality({ c \in ActiveInWindow \ WithHistory :
                                    c \in RepeatInWindow \/ c \notin WithLaterPurchase }), 1),
                "number")

\* C15: no rate or average of get_retention_kpis is emitted as NaN or Inf;
\* ret_rate_return is 'NA' when every customer of the window is new,
\* ret_rate_conv when none is, and med_gap_winback / med_gap_ret when no
\* customer has a purchase before / after the window
C15_ZeroDenominatorsGiveNA ==
    RetentionKpisReturned =>
        /\ \A k \in RateKpiKeys \cup FloatKpiKeys :
             ret.result.d[<<k, 0>>].fmt \notin {"nan", "inf"}
        /\ (WithHistory = {}) => ret.result.d[<<"ret_rate_return", 0>>] = NA
        /\ (WithHistory = ActiveInWindow) => ret.result.d[<<"ret_rate_conv", 0>>] = NA
        /\ (WithHistory = {}) => ret.result.d[<<"med_gap_winback", 0>>] = NA
        /\ (WithLaterPurchase = {}) => ret.result.d[<<"med_gap_ret", 0>>] = NA

\* the customers of the full Invoice table whose earliest invoice is of month cm
FirstInvoiceInMonth(cm) ==
    { c \in { i.CustomerId : i \in Range(Invoice) } :
        /\ \E i \in Range(Invoice) : i.CustomerId = c /\ i.InvoiceDate.m = cm
        /\ \A i \in Range(Invoice) : i.CustomerId = c => i.InvoiceDate.m >= cm }
CohortTableReturned ==
    /\ ret.op = "get_retention_cohort_data"
    /\ ret.result.kind = "df"

\* C16: in every row of the cohort table, cohort_month is the month of the
\* first invoice, in the full Invoice table, of the customers the row counts,
\* and cohort_size is the number of customers of the full Invoice table with
\* that first month, whatever the filter and the date range
C16_CohortsOfFullInvoiceTable ==
    CohortTableReturned =>
        \A i \in 1..Len(ret.result.rows) :
            LET row == ret.result.rows[i]
                active == { r.CustomerId : r \in
                              { x \in Range(tbl.rows) :
                                  /\ Between(x.dt, ret.date_range[1], ret.date_range[2])
                                  /\ x.CustomerId \in FirstInvoiceInMonth(row.cohort_month)
                                  /\ x.dt.m - row.cohort_month = row.month_offset } }
            IN /\ row.cohort_size = Cardinality(FirstInvoiceInMonth(row.cohort_month))
               /\ row.num_active_customers = Cardinality(active)
               /\ row.num_active_customers >= 1
\* a row of a cohort whose first month lies before the date range and some
\* of whose customers the filter leaves out of the working table
C16_Witness ==
    /\ CohortTableReturned
    /\ \E i \in 1..Len(ret.result.rows) :
         /\ ret.date_range[1].m > ret.result.rows[i].cohort_month
         /\ \E c \in FirstInvoiceInMonth(ret.result.rows[i].cohort_month) :
              \A r \in Range(tbl.rows) : r.CustomerId # c

\* the month span between the earliest and the latest invoice of the full
\* Invoice table
FullMonthSpan ==
    LET ms == { i.InvoiceDate.m : i \in Range(Invoice) }
    IN (CHOOSE x \in ms : \A y \in ms : x >= y) - (CHOOSE x \in ms : \A y \in ms : x <= y)

\* C17: without max_offset, get_retention_cohort_data returns the table it
\* returns for max_offset = the month span of the full, unfiltered dataset,
\* under every filter
C17_DefaultOffsetOfFullDataset ==
    (CohortTableReturned /\ ret.max_offset = NoOffset) =>
        ret.result = get_retention_cohort_data(tbl, ret.date_range, <<FullMonthSpan>>)

\* C18: on an empty materialized subset, get_retention_cohort_data without
\* max_offset returns an empty cohort table and does not raise, and
\* get_retention_kpis returns {}
C18_EmptySubsetGivesEmptyTable ==
    (tbl.exists /\ tbl.rows = <<>>) =>
        /\ (ret.op = "get_retention_cohort_data" /\ ret.max_offset = NoOffset) =>
              (ret.result.kind = "df" /\ ret.result.rows = <<>>)
        /\ ret.op = "get_retention_kpis" =>
              (ret.result.kind = "dict" /\ ret.result.d = EmptyDict)

\* C19: a call of get_retention_cohort_data_cached whose date range and
\* max_offset are those of an entry the memo holds is a hit, whether the
\* range is passed as a list or as a tuple: the body does not run again
C19_ListAndTupleShareEntry ==
    [][(/\ ret = NoCall
        /\ ret'.op = "get_retention_cohort_data_cached"
        /\ \E e \in cohortCache :
              e.key[1][2] = ret'.date_range /\ e.key[2] = ret'.max_offset)
       => ret'.hit]_vars

\* the customers with a purchase of group value v in the month window of the
\* returned call of get_group_kpis_full
GroupCustomers(v) ==
    { r.CustomerId : r \in
        { x \in Range(tbl.rows) :
            /\ Between(x.dt, MonthStart(ret.date_range[1]), MonthEnd(ret.date_range[2]))
            /\ \E il \in Range(InvoiceLine) :
                 il.InvoiceId = x.InvoiceId /\ GroupVal(ret.group_var, il) = v } }

\* C20: first_time_customers of a group counts only customers whose first
\* purchase over the whole Invoice table falls inside the date window; a
\* customer whose first purchase precedes the window is counted in no group
C20_GroupFirstTimersAreAllTimeFirst ==
    (ret.op = "get_group_kpis_full" /\ ret.result.kind = "df") =>
        \A n \in 1..Len(ret.result.rows) :
            ret.result.rows[n].first_time_customers <=
                Cardinality({ c \in GroupCustomers(ret.result.rows[n].group_val) :
                                Between(FirstPurchase(c), MonthStart(ret.date_range[1]),
                                        MonthEnd(ret.date_range[2])) })

\* the purchases of the customer inside, before and after the window, and
\* the earliest and latest date of a set of dates
InWindowPurchases ==
    { x \in custArgs.purchases : Between(x, custArgs.date_range[1], custArgs.date_range[2]) }
BeforeWindow == { x \in custArgs.purchases : DateLt(x, custArgs.date_range[1]) }
AfterWindow == { x \in custArgs.purchases : DateLt(custArgs.date_range[2], x) }
Earliest(S) == CHOOSE x \in S : \A y \in S : DateLeq(x, y)
Latest(S) == CHOOSE x \in S : \A y \in S : DateLeq(y, x)
FrameRowReturned == custOut # NoFrame /\ custOut.df # <<>>

\* C21: the windowed lifespan is the month span first-to-last in-window
\* purchase without activity outside the window (undefined with fewer than
\* two in-window purchases), first in-window purchase to window end with
\* later activity only, window start to last in-window purchase with earlier
\* activity only, and window start to window end with activity on both sides
C21_WindowedLifespanByBoundary ==
    FrameRowReturned =>
        custOut.df[1].lifespan_mo_window =
            (IF BeforeWindow = {} /\ AfterWindow = {}
                THEN (IF Cardinality(InWindowPurchases) > 1
                      THEN Num(Latest(InWindowPurchases).m - Earliest(InWindowPurchases).m, 1)
                      ELSE NoneVal)
             ELSE IF BeforeWindow = {}
                THEN Num(custArgs.date_range[2].m - Earliest(InWindowPurchases).m, 1)
             ELSE IF AfterWindow = {}
                THEN Num(Latest(InWindowPurchases).m - custArgs.date_range[1].m, 1)
             ELSE Num(custArgs.date_range[2].m - custArgs.date_range[1].m, 1))
\* a customer with a purchase before, two inside and one after a window that
\* spans more months than the purchases inside it
C21_Witness ==
    /\ FrameRowReturned
    /\ BeforeWindow # {} /\ AfterWindow # {}
    /\ Cardinality(InWindowPurchases) = 2
    /\ Latest(InWindowPurchases).m = Earliest(InWindowPurchases).m
    /\ custOut.df[1].lifespan_mo_window = Num(1, 1)

\* the nearest purchase before the window if any, the purchases inside it and
\* the nearest purchase after it if any
BoundedPurchases ==
    InWindowPurchases
        \cup (IF BeforeWindow = {} THEN {} ELSE {Latest(BeforeWindow)})
        \cup (IF AfterWindow = {} THEN {} ELSE {Earliest(AfterWindow)})

\* C22: avg_gap_bound is the number of days from the first to the last
\* purchase of that sequence divided by its number of gaps, and is undefined
\* only when the sequence is a single purchase
C22_BoundedGapAveragesOverGaps ==
    FrameRowReturned =>
        IF Cardinality(BoundedPurchases) = 1
        THEN custOut.df[1].avg_gap_bound = NoneVal
        ELSE /\ custOut.df[1].avg_gap_bound.k = "num"
             /\ custOut.df[1].avg_gap_bound.n * (Cardinality(BoundedPurchases) - 1) =
                  (DayNo(Latest(BoundedPurchases)) - DayNo(Earliest(BoundedPurchases)))
                     * custOut.df[1].avg_gap_bound.d
\* a customer with purchases before and after the window and two inside it:
\* three gaps
C22_Witness ==
    /\ FrameRowReturned
    /\ BeforeWindow # {} /\ AfterWindow # {}
    /\ Cardinality(InWindowPurchases) = 2
    /\ custOut.df[1].avg_gap_bound.k = "num"
    /\ custOut.df[1].avg_gap_bound.d = 3

\* C23: a get_connection call that finds no database file raises, opens no
\* connection and leaves the cached connection unset; a call that has raised
\* leaves nothing behind, so the next call checks the path again
C23_MissingFileRaisesAndCachesNothing ==
    /\ [](\A t \in Threads : dbCall[t].pc = "raised" => (conn = NoConn /\ opened = 0))
    /\ [][\A t \in Threads :
            (dbCall[t].pc = "checked" /\ dbCall'[t].pc # "checked" /\ ~dbFile) =>
                (dbCall'[t].pc = "raised" /\ conn' = NoConn /\ opened' = opened)]_vars
\* a call has raised on the missing file
C23_Witness ==
    /\ dbCall[MainThread].pc = "raised"
    /\ ~dbFile
    /\ conn = NoConn

Triples(rows) ==
    { <<r.CustomerId, r.InvoiceId, r.dt>> : r \in Range(rows) }

\* C24: after a get_events_shared call that writes, filtered_invoices holds
\* exactly one row per distinct (CustomerId, InvoiceId, dt) of the call's
\* query result, in (CustomerId, dt) order, nothing of the table it replaced
\* is left, and the fingerprint of its InvoiceId column is the one returned.
C24_WrittenTableIsTheCleanResult ==
    (ret.op = "get_events_shared" /\ ~ret.dfNone) =>
        /\ tbl.exists
        /\ Triples(tbl.rows) = Triples(EventsQuery(ret.where_clauses))
        /\ Len(tbl.rows) = Cardinality(Triples(tbl.rows))
        /\ \A i, j \in 1..Len(tbl.rows) : i < j => RowLeq(tbl.rows[i], tbl.rows[j])
        /\ hash_invoice_ids(tbl.rows) = ret.hash

\* C24: a write over a table that held rows outside the new result, for a
\* query whose result has several lines of one invoice
C24_Witness ==
    /\ ret.op = "get_events_shared"
    /\ ~ret.dfNone
    /\ ret.before.exists
    /\ Triples(ret.before.rows) \ Triples(EventsQuery(ret.where_clauses)) # {}
    /\ Len(EventsQuery(ret.where_clauses)) > Len(tbl.rows)
    /\ Len(tbl.rows) > 1

\* C26: the catalog coverage of a top-N row is scoped to the row's date
\* range: unique_tracks_sold of an enriched row never exceeds the row's
\* date-bounded tracks_sold.
C26_CoverageScopedToDateRange ==
    (ret.op = "enrich_catalog_kpis" /\ ret.result.kind = "df") =>
        \A k \in 1..Len(ret.result.rows) :
            ret.result.rows[k].unique_tracks_sold <= ret.result.rows[k].tracks_sold

\* C27: whenever get_events_shared_cached returns fingerprint fp, with rows
\* or with None, answered from the cache or not, the working table exists
\* and the fingerprint of its invoice ids is fp.
C27_CachedFingerprintIsOfTable ==
    ret.op = "get_events_shared_cached" =>
        /\ tbl.exists
        /\ hash_invoice_ids(tbl.rows) = ret.hash

\* session s's store named has just been given a value by a callback
Written(s, name) ==
    /\ store'[s][name] # store[s][name]
    /\ store'[s][name] # NoneStore

C29_ActiveWithinCohortSize ==
    CohortTableReturned =>
        \A i \in 1..Len(ret.result.rows) :
            /\ 1 <= ret.result.rows[i].num_active_customers
            /\ ret.result.rows[i].num_active_customers <= ret.result.rows[i].cohort_size
            /\ 0 < ret.result.rows[i].retention_pct
            /\ ret.result.rows[i].retention_pct <= 10000

\* C29: a table returned for a filtered subset and a derived max_offset,
\* with a row in which only part of the cohort is active
C29_Witness ==
    /\ CohortTableReturned
    /\ ret.max_offset = NoOffset
    /\ Len(tbl.rows) < Len(Invoice)
    /\ \E i \in 1..Len(ret.result.rows) :
         /\ ret.result.rows[i].num_active_customers < ret.result.rows[i].cohort_size
         /\ ret.result.rows[i].retention_pct < 10000

\* C30: for every filter and every date range with a purchase inside it,
\* month-aligned or not, the customer count of the core metrics (cust_num)
\* equals the customer count of the retention KPIs (num_cust) of the same
\* bundle.
C30_CoreAndRetentionCountSameCustomers ==
    ( /\ ret.op = "get_shared_kpis"
      /\ ret.result.kind = "dict"
      /\ \E r \in Range(tbl.rows) : Between(r.dt, ret.date_range[1], ret.date_range[2]) )
    => ret.result.d["metadata_kpis"]["cust_num"]
         = ret.result.d["retention_kpis"][<<"num_cust", 0>>]

====
